---- MODULE Spec2Model ----
(***************************************************************************)
(* State-machine model of drivers/media/i2c/imx708.c, the V4L2 sub-device  *)
(* driver of the Sony IMX708 image sensor: mode negotiation, the control   *)
(* handler, the streaming state machine and runtime / system power         *)
(* management.  Every handler of the driver is one atomic action; the      *)
(* register transport (I2C) is an environment that may fail any transfer.  *)
(***************************************************************************)
EXTENDS Integers, Sequences, FiniteSets, TLC

(***************************************************************************)
(* Program constants (the #defines of the driver).                         *)
(***************************************************************************)
IMX708_REG_MODE_SELECT == 256
IMX708_MODE_STANDBY == 0
IMX708_MODE_STREAMING == 1
IMX708_REG_ORIENTATION == 257
IMX708_INITIAL_PIXEL_RATE == 590000000
IMX708_REG_FRAME_LENGTH == 832
IMX708_FRAME_LENGTH_MAX == 65535
IMX708_LONG_EXP_SHIFT_MAX == 7
IMX708_LONG_EXP_SHIFT_REG == 12544
IMX708_REG_EXPOSURE == 514
IMX708_EXPOSURE_OFFSET == 48
IMX708_EXPOSURE_DEFAULT == 1600
IMX708_EXPOSURE_MIN == 1
IMX708_EXPOSURE_MAX == IMX708_FRAME_LENGTH_MAX - IMX708_EXPOSURE_OFFSET
IMX708_REG_ANALOG_GAIN == 516
IMX708_ANA_GAIN_MIN == 112
IMX708_ANA_GAIN_MAX == 960
IMX708_ANA_GAIN_DEFAULT == IMX708_ANA_GAIN_MIN
IMX708_REG_DIGITAL_GAIN == 526
IMX708_DGTL_GAIN_MIN == 256
IMX708_DGTL_GAIN_MAX == 65535
IMX708_DGTL_GAIN_DEFAULT == 256
IMX708_REG_TEST_PATTERN == 1536
IMX708_REG_TEST_PATTERN_R == 1538
IMX708_REG_TEST_PATTERN_GR == 1540
IMX708_REG_TEST_PATTERN_B == 1542
IMX708_REG_TEST_PATTERN_GB == 1544
IMX708_TEST_PATTERN_COLOUR_MIN == 0
IMX708_TEST_PATTERN_COLOUR_MAX == 4095
IMX708_REG_BASE_SPC_GAINS_L == 31504
IMX708_REG_BASE_SPC_GAINS_R == 31744
IMX708_HDR_EXPOSURE_RATIO == 4

\* The value of the sentinel register that asks for the PDAF gain tables,
\* and the length of each table (the literals 0x40 and 54 of
\* imx708_start_streaming).
SPC_SENTINEL == 64
SPC_TABLE_LEN == 54

\* errno values; the handlers return their negation.
EIO == 5
EACCES == 13
EBUSY == 16
EINVAL == 22
ERANGE == 34

\* enum { IMX708_LINK_FREQ_450MHZ, IMX708_LINK_FREQ_447MHZ, IMX708_LINK_FREQ_453MHZ }
LinkFreqIdx == {0, 1, 2}

\* ARRAY_SIZE of each link_*Mhz_regs list and of mode_common_regs.
LINK_FREQ_NUM_REGS == 2
MODE_COMMON_NUM_REGS == 48

(***************************************************************************)
(* The mode catalog.  supported_modes[i] of the source is                   *)
(* supported_modes[i + 1] here (TLA+ sequences start at 1).  reg_list is    *)
(* kept as its length (num_of_regs) and the two 16-bit values the list      *)
(* leaves in the frame-length (0x0340/0x0341) and exposure (0x0202/0x0203)  *)
(* registers.                                                               *)
(***************************************************************************)
MEDIA_BUS_FMT_SRGGB10_1X10 == 12303
NO_HDR == 0
HDR_X2 == 5
HDR_X3 == 6

supported_modes ==
  << [bus_fmt |-> MEDIA_BUS_FMT_SRGGB10_1X10, width |-> 4608, height |-> 2592,
      line_length_pix |-> 15648, vblank_min |-> 58, vblank_default |-> 58,
      num_of_regs |-> 93, reg_frame_length |-> 2649, reg_exposure |-> 2601,
      pixel_rate |-> 595200000, exposure_lines_min |-> 8,
      exposure_lines_step |-> 1, hdr_mode |-> NO_HDR],
     [bus_fmt |-> MEDIA_BUS_FMT_SRGGB10_1X10, width |-> 1920, height |-> 1080,
      line_length_pix |-> 7824, vblank_min |-> 40, vblank_default |-> 1198,
      num_of_regs |-> 91, reg_frame_length |-> 1336, reg_exposure |-> 1288,
      pixel_rate |-> 585600000, exposure_lines_min |-> 4,
      exposure_lines_step |-> 2, hdr_mode |-> NO_HDR],
     [bus_fmt |-> MEDIA_BUS_FMT_SRGGB10_1X10, width |-> 1920, height |-> 1080,
      line_length_pix |-> 5216, vblank_min |-> 3673, vblank_default |-> 3673,
      num_of_regs |-> 93, reg_frame_length |-> 2651, reg_exposure |-> 2603,
      pixel_rate |-> 777600000,
      exposure_lines_min |-> 8 * IMX708_HDR_EXPOSURE_RATIO * IMX708_HDR_EXPOSURE_RATIO,
      exposure_lines_step |-> 2 * IMX708_HDR_EXPOSURE_RATIO * IMX708_HDR_EXPOSURE_RATIO,
      hdr_mode |-> HDR_X3],
     [bus_fmt |-> MEDIA_BUS_FMT_SRGGB10_1X10, width |-> 1536, height |-> 864,
      line_length_pix |-> 5216, vblank_min |-> 40, vblank_default |-> 2755,
      num_of_regs |-> 91, reg_frame_length |-> 1206, reg_exposure |-> 1158,
      pixel_rate |-> 566400000, exposure_lines_min |-> 4,
      exposure_lines_step |-> 2, hdr_mode |-> NO_HDR] >>

\* imx708->cfg_num = ARRAY_SIZE(supported_modes)
cfg_num == Len(supported_modes)

(***************************************************************************)
(* 32-bit machine arithmetic.  A u32 or int of the source is represented    *)
(* by the signed 32-bit integer with the same bit pattern, so 0xFFFFFFFF    *)
(* is -1 here.  Sums and differences wrap modulo 2^32 as the kernel's       *)
(* build (-fno-strict-overflow) makes them.                                 *)
(***************************************************************************)
INT_MAX == 2147483647
INT_MIN == (-INT_MAX) - 1

Add32(a, b) ==
  IF a > 0 /\ b > INT_MAX - a THEN (a + INT_MIN) + (b + INT_MIN)
  ELSE IF a < 0 /\ b < INT_MIN - a THEN (a - INT_MIN) + (b - INT_MIN)
  ELSE a + b

Neg32(a) == IF a = INT_MIN THEN INT_MIN ELSE -a

Sub32(a, b) ==
  IF b = INT_MIN
  THEN (IF a < 0 THEN a - INT_MIN ELSE a + INT_MIN)
  ELSE Add32(a, -b)

\* abs() of linux/math.h on an unsigned int operand: the operand is
\* converted to int, then negated when negative.
abs(x) == IF x < 0 THEN Neg32(x) ELSE x

(***************************************************************************)
(* State.                                                                   *)
(*   imx708  the fields of struct imx708 the handlers read and write        *)
(*   ctrls   the V4L2 controls of imx708->ctrl_handler: for each control    *)
(*           its new-value slot (ctrl->val), current value (ctrl->cur.val), *)
(*           range, default and GRABBED flag                                *)
(*   pm      the runtime-PM core's view of the device: usage count and      *)
(*           runtime status                                                 *)
(*   hw      the sensor: the stream-enable register and how much of the     *)
(*           common register list it holds                                  *)
(*   log     the register transfers performed by the last handler           *)
(*   call    the last handler invoked and its arguments                     *)
(*   ret     what that handler returned (out parameters included)           *)
(*   sys     system sleep state of the device: running, suspended (between  *)
(*           imx708_suspend and imx708_resume) or removed                   *)
(*   mutex   the owner of imx708->mutex: a thread, or 0 when it is free      *)
(*   task    for each thread, the operation it is in, its position in the   *)
(*           operation's code and the operation's local variables; used     *)
(*           where operations are interleaved (SpecLock), and idle where    *)
(*           each handler is one step                                       *)
(***************************************************************************)
VARIABLES imx708, ctrls, pm, hw, log, call, ret, sys, mutex, task

vars == <<imx708, ctrls, pm, hw, log, call, ret, sys, mutex, task>>

CtrlIds == {"PIXEL_RATE", "VBLANK", "HBLANK", "EXPOSURE", "ANALOGUE_GAIN",
            "DIGITAL_GAIN", "HFLIP", "VFLIP", "TEST_PATTERN",
            "TEST_PATTERN_RED", "TEST_PATTERN_GREENR", "TEST_PATTERN_BLUE",
            "TEST_PATTERN_GREENB"}

\* Controls carrying V4L2_CTRL_FLAG_READ_ONLY: PIXEL_RATE by its standard
\* definition, HBLANK set by imx708_init_controls.
ReadOnlyCtrls == {"PIXEL_RATE", "HBLANK"}

\* v4l2_ctrl_cluster(2, &imx708->hflip): hflip is the master of {hflip, vflip}.
Cluster(id) == IF id \in {"HFLIP", "VFLIP"} THEN {"HFLIP", "VFLIP"} ELSE {id}
Master(id) == IF id \in {"HFLIP", "VFLIP"} THEN "HFLIP" ELSE id

\* The writable controls in the order imx708_init_controls creates them,
\* a cluster standing at its first member.
SetupOrder == << "VBLANK", "EXPOSURE", "ANALOGUE_GAIN", "DIGITAL_GAIN", "HFLIP",
                 "TEST_PATTERN", "TEST_PATTERN_RED", "TEST_PATTERN_GREENR",
                 "TEST_PATTERN_BLUE", "TEST_PATTERN_GREENB" >>

imx708_test_pattern_val == << 0, 2, 1, 3, 4 >>

(***************************************************************************)
(* A handler is a function from worlds to worlds.  A world W carries the    *)
(* state (imx708, ctrls, pm, hw), the transfers made so far (log), the      *)
(* return value of the last call (ret) and the environment of this          *)
(* invocation: W.bus.fail, the ordinals of the transfers that fail;         *)
(* W.fmt, the format a pad operation hands back (NoFmt when none);          *)
(* W.bus.part, whether a failing list transfer fails at its first or at its *)
(* last entry; W.bus.rd, the value a successful read of the sentinel        *)
(* register returns; W.bus.pwr, whether imx708_power_on succeeds.           *)
(***************************************************************************)
NoFmt == [code |-> 0, width |-> 0, height |-> 0]

World(bus) ==
  [imx708 |-> imx708, ctrls |-> ctrls, pm |-> pm, hw |-> hw,
   log |-> << >>, ret |-> 0, fmt |-> NoFmt, n |-> 0, bus |-> bus]

BusFails(W) == (W.n + 1) \in W.bus.fail

Pow2(n) == 2 ^ n

\* The effect of a successful register write on the sensor.
HwWrite(h, reg, val) ==
  CASE reg = IMX708_REG_MODE_SELECT -> [h EXCEPT !.mode_select = val]
    [] OTHER                        -> h

\* The effect on the sensor of the first `written` entries of a register list.
\* mode_common_regs starts with {0x0100, 0x00}; common_n counts the leading
\* entries of mode_common_regs the sensor holds since it was powered up.
HwList(h, name, idx, written) ==
  CASE name = "common" ->
         [h EXCEPT !.mode_select = IF written >= 1 THEN IMX708_MODE_STANDBY ELSE @,
                   !.common_n = IF written > @ THEN written ELSE @]
    [] OTHER -> h

\* imx708_write_reg: one transfer of len value bytes; the value is cut to
\* len bytes on the wire.
imx708_write_reg(W, reg, len, val) ==
  LET ok == ~BusFails(W)
      wire == val % Pow2(8 * len)
  IN [W EXCEPT !.n = @ + 1,
               !.log = Append(@, [k |-> "write", name |-> "reg", reg |-> reg,
                                  val |-> wire, n |-> IF ok THEN 1 ELSE 0,
                                  ok |-> ok]),
               !.hw = IF ok THEN HwWrite(@, reg, wire) ELSE @,
               !.ret = IF ok THEN 0 ELSE -EIO]

\* imx708_read_reg: one read transfer.  W.ret is the status; on success the
\* value read is W.bus.rd.
imx708_read_reg(W, reg, len) ==
  LET ok == ~BusFails(W)
  IN [W EXCEPT !.n = @ + 1,
               !.log = Append(@, [k |-> "read", name |-> "reg", reg |-> reg,
                                  val |-> IF ok THEN W.bus.rd ELSE 0,
                                  n |-> IF ok THEN 1 ELSE 0, ok |-> ok]),
               !.ret = IF ok THEN 0 ELSE -EIO]

\* imx708_write_regs over a list of `len` entries: the entries are written
\* in order and the first failure ends the loop.  The list is one transfer
\* sequence; when it fails, it fails at its first or its last entry.
imx708_write_regs(W, name, idx, len) ==
  LET ok == ~BusFails(W)
      written == IF ok THEN len
                 ELSE IF W.bus.part = "first" THEN 0 ELSE len - 1
  IN [W EXCEPT !.n = @ + 1,
               !.log = Append(@, [k |-> "list", name |-> name, reg |-> idx,
                                  val |-> len, n |-> written, ok |-> ok]),
               !.hw = HwList(@, name, idx, written),
               !.ret = IF ok THEN 0 ELSE -EIO]

(***************************************************************************)
(* Runtime power management of the device (the PM core calls               *)
(* imx708_power_on / imx708_power_off as runtime resume / suspend).         *)
(***************************************************************************)
\* Registers of a sensor that has just been powered up.
HwReset == [mode_select |-> IMX708_MODE_STANDBY, common_n |-> 0]

\* imx708_power_on: enables the regulators and the clock, releases reset.
\* It fails when a regulator or the clock cannot be enabled (W.bus.pwr false),
\* leaving the sensor off.
imx708_power_on(W) ==
  IF W.bus.pwr
  THEN [W EXCEPT !.hw = HwReset, !.ret = 0]
  ELSE [W EXCEPT !.ret = -EIO]

\* Variant of imx708_power_off that forgets to clear common_regs_written.
power_off_keep_flag(W) ==
  [W EXCEPT !.hw = HwReset, !.ret = 0]

\* imx708_power_off: asserts reset, cuts regulators and clock, and forces
\* the common registers to be reprogrammed at the next power-up.
imx708_power_off(W) ==
  [W EXCEPT !.hw = HwReset,
            !.imx708.common_regs_written = FALSE,
            !.ret = 0]

\* pm_runtime_get_sync: takes a usage reference, then resumes the device if
\* it is suspended.  The reference is kept when the resume fails.
rpm_resumed(P) ==
  IF P.ret = 0 THEN [P EXCEPT !.pm.status = "active", !.ret = 0] ELSE P

rpm_resume(U) ==
  IF U.pm.status = "active" THEN [U EXCEPT !.ret = 1]
  ELSE rpm_resumed(imx708_power_on(U))

pm_runtime_get_sync(W) == rpm_resume([W EXCEPT !.pm.usage_count = @ + 1])

\* pm_runtime_put / pm_runtime_put_noidle: drop a usage reference.  put
\* also queues an idle check: the suspend itself comes later (RuntimeSuspend).
pm_runtime_put(W) ==
  [W EXCEPT !.pm.usage_count = IF @ > 0 THEN @ - 1 ELSE 0]

pm_runtime_put_noidle(W) ==
  [W EXCEPT !.pm.usage_count = IF @ > 0 THEN @ - 1 ELSE 0]

\* pm_runtime_get_if_in_use: takes a reference only if the device is active
\* and already in use; returns 1 then, and 0 otherwise.
pm_runtime_get_if_in_use(W) ==
  IF W.pm.status = "active" /\ W.pm.usage_count > 0
  THEN [W EXCEPT !.pm.usage_count = @ + 1, !.ret = 1]
  ELSE [W EXCEPT !.ret = 0]

(***************************************************************************)
(* Register-level helpers of the control handler.                           *)
(***************************************************************************)
Max(a, b) == IF a > b THEN a ELSE b
Min(a, b) == IF a < b THEN a ELSE b

\* val >> s
Shr(val, s) == val \div Pow2(s)

\* Variant of ResolveExposure without the clamp to the mode's minimum.
ResolveExposure_no_clamp(mode, val) ==
  val - (val % mode.exposure_lines_step)

\* imx708_set_exposure: clamp up to the mode's minimum, round down to the
\* mode's step, write the value shifted by the long-exposure shift.
ResolveExposure(mode, val) ==
  LET m == Max(val, mode.exposure_lines_min)
  IN m - (m % mode.exposure_lines_step)

imx708_set_exposure(W, val) ==
  imx708_write_reg(W, IMX708_REG_EXPOSURE, 2,
                   Shr(ResolveExposure(supported_modes[W.imx708.cur_mode], val),
                       W.imx708.long_exp_shift))

imx708_set_analogue_gain(W, val) ==
  imx708_write_reg(W, IMX708_REG_ANALOG_GAIN, 2, val)

\* Variant of the loop that also halves a value equal to the register's
\* maximum.
RECURSIVE frame_length_loop_halves_max(_, _)
frame_length_loop_halves_max(val, shift) ==
  IF val >= IMX708_FRAME_LENGTH_MAX
  THEN frame_length_loop_halves_max(val \div 2, shift + 1)
  ELSE [val |-> val, shift |-> shift]

\* The while loop of imx708_set_frame_length: halve until the value fits
\* the 16-bit register, counting the halvings.
RECURSIVE FrameLengthLoop(_, _)
FrameLengthLoop(val, shift) ==
  IF val > IMX708_FRAME_LENGTH_MAX
  THEN FrameLengthLoop(val \div 2, shift + 1)
  ELSE [val |-> val, shift |-> shift]

\* The second write of imx708_set_frame_length, skipped when the first failed.
set_frame_length_shift(F) ==
  IF F.ret # 0 THEN F
  ELSE imx708_write_reg(F, IMX708_LONG_EXP_SHIFT_REG, 1, F.imx708.long_exp_shift)

\* Variant of imx708_set_frame_length that writes the registers and leaves
\* imx708->long_exp_shift as it was.
set_frame_length_keeps_shift(W, val) ==
  [set_frame_length_shift(
     imx708_write_reg([W EXCEPT !.imx708.long_exp_shift =
                                   FrameLengthLoop(val, 0).shift],
                      IMX708_REG_FRAME_LENGTH, 2, FrameLengthLoop(val, 0).val))
     EXCEPT !.imx708.long_exp_shift = W.imx708.long_exp_shift]

imx708_set_frame_length(W, val) ==
  LET r == FrameLengthLoop(val, 0)
  IN set_frame_length_shift(
       imx708_write_reg([W EXCEPT !.imx708.long_exp_shift = r.shift],
                        IMX708_REG_FRAME_LENGTH, 2, r.val))

(***************************************************************************)
(* The V4L2 control framework, as far as the driver's handlers depend on    *)
(* it: validation of a new value, the call of the driver's s_ctrl for a     *)
(* changed cluster, range modification and the replay of all controls.      *)
(***************************************************************************)
CtrlType(id) ==
  CASE id \in {"HFLIP", "VFLIP"} -> "boolean"
    [] id = "TEST_PATTERN"       -> "menu"
    [] OTHER                     -> "integer"

\* validate_new: an integer is clamped into [minimum, maximum] (every step
\* of this driver is 1), a boolean is normalised, a menu index outside the
\* menu is refused.
ValidateErr(c, id, v) ==
  IF CtrlType(id) = "menu" /\ (v < c.minimum \/ v > c.maximum) THEN -ERANGE ELSE 0

ValidateVal(c, id, v) ==
  CASE CtrlType(id) = "boolean" -> (IF v # 0 THEN 1 ELSE 0)
    [] CtrlType(id) = "menu"    -> v
    [] OTHER                    -> Max(c.minimum, Min(c.maximum, v))

RECURSIVE imx708_set_ctrl(_, _)

\* new_to_cur for the cluster of id, when the driver's s_ctrl succeeded.
new_to_cur(S, id) ==
  IF S.ret # 0 THEN S
  ELSE [S EXCEPT !.ctrls =
          [j \in CtrlIds |->
             IF j \in Cluster(id) THEN [S.ctrls[j] EXCEPT !.cur = S.ctrls[j].val]
             ELSE S.ctrls[j]]]

\* try_or_set_cluster on validated new values N.
try_or_set_cluster(N, id) ==
  IF N.ctrls[id].grabbed THEN [N EXCEPT !.ret = -EBUSY]
  ELSE IF \A j \in Cluster(id) : N.ctrls[j].val = N.ctrls[j].cur
  THEN [N EXCEPT !.ret = 0]
  ELSE new_to_cur(imx708_set_ctrl(N, Master(id)), id)

\* set_ctrl + try_or_set_cluster: ctrl->val of `id` holds the requested
\* value.  The other members of the cluster get their current value as new
\* value; a grabbed control is busy; an unchanged cluster is not sent to the
\* driver; the new values become current only when the driver's s_ctrl
\* succeeds.
v4l2_set_ctrl(W, id) ==
  IF ValidateErr(W.ctrls[id], id, W.ctrls[id].val) # 0
  THEN [W EXCEPT !.ret = ValidateErr(W.ctrls[id], id, W.ctrls[id].val)]
  ELSE try_or_set_cluster(
         [W EXCEPT !.ctrls =
            [j \in CtrlIds |->
               IF j = id
               THEN [W.ctrls[j] EXCEPT
                       !.val = ValidateVal(W.ctrls[j], id, W.ctrls[j].val)]
               ELSE IF j \in Cluster(id)
               THEN [W.ctrls[j] EXCEPT !.val = W.ctrls[j].cur]
               ELSE W.ctrls[j]]],
         id)

\* v4l2_s_ctrl (VIDIOC_S_CTRL): a read-only control is refused, otherwise
\* the user's value becomes the new value and the control is set.
v4l2_s_ctrl(W, id, v) ==
  IF id \in ReadOnlyCtrls THEN [W EXCEPT !.ret = -EACCES]
  ELSE v4l2_set_ctrl([W EXCEPT !.ctrls[id].val = v], id)

\* __v4l2_ctrl_modify_range: install the new range and default, bring the
\* current value into the range, and set the control if that changed it.
modify_range_set(V, id) ==
  IF V.ctrls[id].val # V.ctrls[id].cur
  THEN v4l2_set_ctrl(V, id)
  ELSE [V EXCEPT !.ret = 0]

v4l2_ctrl_modify_range(W, id, min, max, def) ==
  modify_range_set(
    [W EXCEPT !.ctrls[id].minimum = min,
              !.ctrls[id].maximum = max,
              !.ctrls[id].default_value = def,
              !.ctrls[id].val =
                 ValidateVal([minimum |-> min, maximum |-> max], id,
                             W.ctrls[id].cur)],
    id)

\* __v4l2_ctrl_handler_setup: every writable control, in creation order, is
\* sent to the driver with its current value; the first error ends the loop.
\* cur_to_new for the cluster of id.
cur_to_new(W, id) ==
  [W EXCEPT !.ctrls =
     [j \in CtrlIds |->
        IF j \in Cluster(id) THEN [W.ctrls[j] EXCEPT !.val = W.ctrls[j].cur]
        ELSE W.ctrls[j]]]

RECURSIVE v4l2_ctrl_handler_setup_from(_, _)
RECURSIVE handler_setup_next(_, _)

v4l2_ctrl_handler_setup_from(W, i) ==
  IF i > Len(SetupOrder) THEN [W EXCEPT !.ret = 0]
  ELSE handler_setup_next(
         imx708_set_ctrl(cur_to_new(W, SetupOrder[i]), SetupOrder[i]), i)

handler_setup_next(S, i) ==
  IF S.ret # 0 THEN S ELSE v4l2_ctrl_handler_setup_from(S, i + 1)

v4l2_ctrl_handler_setup(W) == v4l2_ctrl_handler_setup_from(W, 1)

\* __v4l2_ctrl_grab
v4l2_ctrl_grab(W, id, grabbed) == [W EXCEPT !.ctrls[id].grabbed = grabbed]

(***************************************************************************)
(* The driver's control handler.                                            *)
(***************************************************************************)
\* Variant of imx708_adjust_exposure_range that forgets IMX708_EXPOSURE_OFFSET.
adjust_exposure_range_no_offset(W) ==
  LET exposure_max == supported_modes[W.imx708.cur_mode].height
                        + W.ctrls["VBLANK"].val
      exposure_def == Min(exposure_max, W.ctrls["EXPOSURE"].val)
  IN v4l2_ctrl_modify_range(W, "EXPOSURE", W.ctrls["EXPOSURE"].minimum,
                            exposure_max, exposure_def)

\* imx708_adjust_exposure_range: the exposure maximum follows the vblank
\* value being set; the default is the exposure value cut to that maximum.
imx708_adjust_exposure_range(W) ==
  LET exposure_max == supported_modes[W.imx708.cur_mode].height
                        + W.ctrls["VBLANK"].val - IMX708_EXPOSURE_OFFSET
      exposure_def == Min(exposure_max, W.ctrls["EXPOSURE"].val)
  IN v4l2_ctrl_modify_range(W, "EXPOSURE", W.ctrls["EXPOSURE"].minimum,
                            exposure_max, exposure_def)

\* The register and width a plain control value is written to.
CtrlReg(id) ==
  CASE id = "DIGITAL_GAIN"        -> IMX708_REG_DIGITAL_GAIN
    [] id = "TEST_PATTERN_RED"    -> IMX708_REG_TEST_PATTERN_R
    [] id = "TEST_PATTERN_GREENR" -> IMX708_REG_TEST_PATTERN_GR
    [] id = "TEST_PATTERN_BLUE"   -> IMX708_REG_TEST_PATTERN_B
    [] id = "TEST_PATTERN_GREENB" -> IMX708_REG_TEST_PATTERN_GB

\* The second switch of imx708_set_ctrl: the hardware-apply phase.
imx708_set_ctrl_apply(W, id) ==
  LET val == W.ctrls[id].val
  IN CASE id = "ANALOGUE_GAIN" ->
            [imx708_set_analogue_gain(W, val) EXCEPT !.ret = 0]
       [] id = "EXPOSURE" -> imx708_set_exposure(W, val)
       [] id \in {"DIGITAL_GAIN", "TEST_PATTERN_RED", "TEST_PATTERN_GREENR",
                  "TEST_PATTERN_BLUE", "TEST_PATTERN_GREENB"} ->
            imx708_write_reg(W, CtrlReg(id), 2, val)
       [] id = "TEST_PATTERN" ->
            imx708_write_reg(W, IMX708_REG_TEST_PATTERN, 2,
                             imx708_test_pattern_val[val + 1])
       [] id \in {"HFLIP", "VFLIP"} ->
            imx708_write_reg(W, IMX708_REG_ORIENTATION, 1,
                             W.ctrls["HFLIP"].val + 2 * W.ctrls["VFLIP"].val)
       [] id = "VBLANK" ->
            imx708_set_frame_length(W,
              supported_modes[W.imx708.cur_mode].height + val)
       [] OTHER -> [W EXCEPT !.ret = -EINVAL]

\* imx708_set_ctrl: the s_ctrl operation of every control of the handler.
\* The first switch of imx708_set_ctrl.
set_ctrl_adjust(W, id) ==
  IF id = "VBLANK" THEN imx708_adjust_exposure_range(W) ELSE W

\* The end of imx708_set_ctrl: pm_runtime_put, return ret.
set_ctrl_put(H) == [pm_runtime_put(H) EXCEPT !.ret = H.ret]

\* Variant of set_ctrl_in_use that applies the control whether or not the
\* device is in use.
set_ctrl_without_power_check(G, id) ==
  set_ctrl_put(imx708_set_ctrl_apply(G, id))

\* imx708_set_ctrl after pm_runtime_get_if_in_use.
set_ctrl_in_use(G, id) ==
  IF G.ret = 0 THEN [G EXCEPT !.ret = 0]
  ELSE set_ctrl_put(imx708_set_ctrl_apply(G, id))

imx708_set_ctrl(W, id) ==
  set_ctrl_in_use(pm_runtime_get_if_in_use(set_ctrl_adjust(W, id)), id)

\* imx708_set_framing_limits: pixel rate, vblank and hblank ranges of the
\* current mode.
imx708_set_framing_limits(W) ==
  LET mode == supported_modes[W.imx708.cur_mode]
      P == v4l2_ctrl_modify_range(W, "PIXEL_RATE", mode.pixel_rate,
                                  mode.pixel_rate, mode.pixel_rate)
      V == v4l2_ctrl_modify_range(P, "VBLANK", mode.vblank_min,
             (Pow2(IMX708_LONG_EXP_SHIFT_MAX) * IMX708_FRAME_LENGTH_MAX)
               - mode.height,
             mode.vblank_default)
      hblank == mode.line_length_pix - mode.width
  IN [v4l2_ctrl_modify_range(V, "HBLANK", hblank, hblank, hblank)
        EXCEPT !.ret = 0]

(***************************************************************************)
(* Mode negotiation.                                                        *)
(***************************************************************************)
\* imx708_get_reso_dist: the differences are taken in unsigned int, abs()
\* converts them to int, the sum is an int.
imx708_get_reso_dist(mode, framefmt) ==
  Add32(abs(Sub32(mode.width, framefmt.width)),
        abs(Sub32(mode.height, framefmt.height)))

\* The loop of imx708_find_best_fit from source index i (cur_best_fit is a
\* source index, 0-based).
RECURSIVE find_best_fit_loop(_, _, _, _)
find_best_fit_loop(framefmt, i, cur_best_fit, cur_best_fit_dist) ==
  IF i >= cfg_num THEN cur_best_fit
  ELSE LET dist == imx708_get_reso_dist(supported_modes[i + 1], framefmt)
       IN IF (cur_best_fit_dist = -1 \/ dist < cur_best_fit_dist)
             /\ supported_modes[i + 1].bus_fmt = framefmt.code
          THEN find_best_fit_loop(framefmt, i + 1, i, dist)
          ELSE find_best_fit_loop(framefmt, i + 1, cur_best_fit, cur_best_fit_dist)

\* Variant of imx708_find_best_fit whose cur_best_fit starts at the last
\* catalog entry.
find_best_fit_default_last(framefmt) ==
  find_best_fit_loop(framefmt, 0, cfg_num - 1, -1) + 1

\* imx708_find_best_fit: the index (1-based here) of the mode returned.
imx708_find_best_fit(framefmt) == find_best_fit_loop(framefmt, 0, 0, -1) + 1

ModeFmt(m) == [code |-> supported_modes[m].bus_fmt,
               width |-> supported_modes[m].width,
               height |-> supported_modes[m].height]

\* Variant of set_pad_format_mode that commits the mode of a TRY request too.
set_pad_format_mode_commits_try(W, which, mode) ==
  [imx708_set_framing_limits(
     [W EXCEPT !.fmt = ModeFmt(mode), !.imx708.cur_mode = mode])
     EXCEPT !.ret = 0]

\* imx708_set_pad_format: the request is replaced by the chosen mode's
\* format; an ACTIVE request commits the mode and its framing limits, a
\* TRY request only stores the format in the caller's file-handle state.
set_pad_format_mode(W, which, mode) ==
  IF which = "TRY" THEN [W EXCEPT !.fmt = ModeFmt(mode), !.ret = 0]
  ELSE [imx708_set_framing_limits(
          [W EXCEPT !.fmt = ModeFmt(mode), !.imx708.cur_mode = mode])
          EXCEPT !.ret = 0]

imx708_set_pad_format(W, which, framefmt) ==
  set_pad_format_mode(W, which, imx708_find_best_fit(framefmt))

\* imx708_get_pad_format with which = ACTIVE.
imx708_get_pad_format(W) ==
  [W EXCEPT !.fmt = ModeFmt(W.imx708.cur_mode), !.ret = 0]

\* The loop of RKMODULE_SET_HDR_CFG: the first source index i >= from whose
\* size is w x h and whose hdr_mode is the requested one, cfg_num if none.
RECURSIVE hdr_cfg_loop(_, _, _, _)
hdr_cfg_loop(i, w, h, hdr_mode) ==
  IF i >= cfg_num THEN cfg_num
  ELSE IF w = supported_modes[i + 1].width /\ h = supported_modes[i + 1].height
          /\ supported_modes[i + 1].hdr_mode = hdr_mode
       THEN i
       ELSE hdr_cfg_loop(i + 1, w, h, hdr_mode)

\* imx708_ioctl, command RKMODULE_SET_HDR_CFG.
set_hdr_cfg_found(W, i) ==
  IF i = cfg_num THEN [W EXCEPT !.ret = -EINVAL]
  ELSE [imx708_set_framing_limits([W EXCEPT !.imx708.cur_mode = i + 1])
          EXCEPT !.ret = 0]

imx708_ioctl_set_hdr_cfg(W, hdr_mode) ==
  set_hdr_cfg_found(W, hdr_cfg_loop(0, supported_modes[W.imx708.cur_mode].width,
                                    supported_modes[W.imx708.cur_mode].height,
                                    hdr_mode))

(***************************************************************************)
(* Streaming.                                                               *)
(***************************************************************************)
\* One of the two loops of imx708_start_streaming that write a PDAF gain
\* table: 54 single-register writes at base + i, ended by the first failure.
write_pdaf_gains(W, name, base) ==
  LET ok == ~BusFails(W)
      written == IF ok THEN SPC_TABLE_LEN
                 ELSE IF W.bus.part = "first" THEN 0 ELSE SPC_TABLE_LEN - 1
  IN [W EXCEPT !.n = @ + 1,
               !.log = Append(@, [k |-> "list", name |-> name, reg |-> base,
                                  val |-> SPC_TABLE_LEN, n |-> written,
                                  ok |-> ok]),
               !.ret = IF ok THEN 0 ELSE -EIO]

\* The second gain table, written when the first one was.
pdaf_gains_R(L) ==
  IF L.ret = 0
  THEN write_pdaf_gains(L, "pdaf_R", IMX708_REG_BASE_SPC_GAINS_R)
  ELSE L

\* Variant of pdaf_gains that writes the tables after every successful read.
pdaf_gains_any_value(R) ==
  IF R.ret = 0
  THEN pdaf_gains_R(write_pdaf_gains(R, "pdaf_L", IMX708_REG_BASE_SPC_GAINS_L))
  ELSE R

\* The gain tables, written when the sentinel was read and asks for them.
pdaf_gains(R) ==
  IF R.ret = 0 /\ R.bus.rd = SPC_SENTINEL
  THEN pdaf_gains_R(write_pdaf_gains(R, "pdaf_L", IMX708_REG_BASE_SPC_GAINS_L))
  ELSE R

\* Variant of common_regs_done that sets the flag whatever the PDAF step
\* returned.
common_regs_done_always(P) ==
  [P EXCEPT !.imx708.common_regs_written = TRUE]

\* The end of the common block: error return, or the flag set.
common_regs_done(P) ==
  IF P.ret # 0 THEN P ELSE [P EXCEPT !.imx708.common_regs_written = TRUE]

\* The common block after the common list.
common_regs_patch(C) ==
  IF C.ret # 0 THEN C
  ELSE common_regs_done(pdaf_gains(imx708_read_reg(C, IMX708_REG_BASE_SPC_GAINS_L, 1)))

\* Variant of start_streaming_common that runs the block at every start.
start_streaming_common_always(W) ==
  common_regs_patch(imx708_write_regs(W, "common", 0, MODE_COMMON_NUM_REGS))

\* The block of imx708_start_streaming guarded by !common_regs_written.
\* W.ret is 0 when the block is skipped or succeeded.
start_streaming_common(W) ==
  IF W.imx708.common_regs_written THEN [W EXCEPT !.ret = 0]
  ELSE common_regs_patch(imx708_write_regs(W, "common", 0, MODE_COMMON_NUM_REGS))

\* imx708_start_streaming
\* The steps of imx708_start_streaming after the common block; each is
\* skipped when the step before it returned an error (if (ret) return ret).
start_streaming_mode(C) ==
  IF C.ret # 0 THEN C
  ELSE imx708_write_regs(C, "mode", C.imx708.cur_mode,
                         supported_modes[C.imx708.cur_mode].num_of_regs)

start_streaming_link_freq(M) ==
  IF M.ret # 0 THEN M
  ELSE imx708_write_regs(M, "link_freq", M.imx708.link_freq_idx,
                         LINK_FREQ_NUM_REGS)

start_streaming_setup(F) ==
  IF F.ret # 0 THEN F ELSE v4l2_ctrl_handler_setup(F)

start_streaming_enable(H) ==
  IF H.ret # 0 THEN H
  ELSE imx708_write_reg(H, IMX708_REG_MODE_SELECT, 1, IMX708_MODE_STREAMING)

imx708_start_streaming(W) ==
  start_streaming_enable(
    start_streaming_setup(
      start_streaming_link_freq(
        start_streaming_mode(
          start_streaming_common(W)))))

\* Variant of imx708_stop_streaming that hands the result of the write to
\* its caller.
stop_streaming_returns_error(W) ==
  imx708_write_reg(W, IMX708_REG_MODE_SELECT, 1, IMX708_MODE_STANDBY)

\* imx708_stop_streaming: the result of the write is only logged.
imx708_stop_streaming(W) ==
  [imx708_write_reg(W, IMX708_REG_MODE_SELECT, 1, IMX708_MODE_STANDBY)
     EXCEPT !.ret = 0]

BoolInt(b) == IF b THEN 1 ELSE 0

\* The tail of imx708_set_stream: the flag is set and the flips are grabbed
\* or released.
set_stream_done(D, enable) ==
  [v4l2_ctrl_grab(
     v4l2_ctrl_grab([D EXCEPT !.imx708.streaming = (enable # 0)],
                    "VFLIP", enable # 0),
     "HFLIP", enable # 0)
   EXCEPT !.ret = D.ret]

\* After imx708_start_streaming: err_rpm_put, or the tail.
set_stream_started(S, enable) ==
  IF S.ret # 0 THEN [pm_runtime_put(S) EXCEPT !.ret = S.ret]
  ELSE set_stream_done(S, enable)

\* Variant of set_stream_on that keeps the usage reference when
\* pm_runtime_get_sync failed.
set_stream_on_keeps_reference(G, enable) ==
  IF G.ret < 0 THEN G
  ELSE set_stream_started(imx708_start_streaming(G), enable)

\* After pm_runtime_get_sync: put_noidle and err_unlock, or the start.
set_stream_on(G, enable) ==
  IF G.ret < 0 THEN [pm_runtime_put_noidle(G) EXCEPT !.ret = G.ret]
  ELSE set_stream_started(imx708_start_streaming(G), enable)

\* imx708_set_stream past the comparison of enable with the streaming flag.
set_stream_change(W, enable) ==
  IF enable # 0 THEN set_stream_on(pm_runtime_get_sync(W), enable)
  ELSE set_stream_done(pm_runtime_put(imx708_stop_streaming(W)), enable)

\* Variant of imx708_set_stream without the early return for a request that
\* matches the streaming flag.
set_stream_no_early_return(W, enable) == set_stream_change(W, enable)

\* imx708_set_stream
imx708_set_stream(W, enable) ==
  IF BoolInt(W.imx708.streaming) = enable THEN [W EXCEPT !.ret = 0]
  ELSE set_stream_change(W, enable)

\* Variant of imx708_suspend that clears common_regs_written.
imx708_suspend_clears_flag(W) ==
  IF W.imx708.streaming
  THEN [imx708_stop_streaming(W) EXCEPT !.imx708.common_regs_written = FALSE,
                                        !.ret = 0]
  ELSE [W EXCEPT !.imx708.common_regs_written = FALSE, !.ret = 0]

\* imx708_suspend (system sleep)
imx708_suspend(W) ==
  IF W.imx708.streaming
  THEN [imx708_stop_streaming(W) EXCEPT !.ret = 0]
  ELSE [W EXCEPT !.ret = 0]

\* imx708_resume (system wake-up)
resume_started(S) ==
  IF S.ret # 0
  THEN [imx708_stop_streaming(S) EXCEPT !.imx708.streaming = FALSE,
                                        !.ret = S.ret]
  ELSE [S EXCEPT !.ret = 0]

imx708_resume(W) ==
  IF W.imx708.streaming
  THEN resume_started(imx708_start_streaming(W))
  ELSE [W EXCEPT !.ret = 0]

\* imx708_s_power: a successful power-up returns what pm_runtime_get_sync
\* returned (1 when the device was already active).
s_power_on(G) ==
  IF G.ret < 0 THEN [pm_runtime_put_noidle(G) EXCEPT !.ret = G.ret]
  ELSE [G EXCEPT !.imx708.power_on = TRUE]

imx708_s_power(W, on) ==
  IF W.imx708.power_on = (on # 0) THEN [W EXCEPT !.ret = 0]
  ELSE IF on # 0 THEN s_power_on(pm_runtime_get_sync(W))
  ELSE [pm_runtime_put(W) EXCEPT !.imx708.power_on = FALSE, !.ret = 0]

\* Variant of imx708_remove that never powers the sensor off.
remove_without_power_off(W) ==
  [W EXCEPT !.pm.status = "suspended", !.ret = 0]

\* imx708_remove: the controls are freed, runtime PM is disabled and the
\* sensor is powered off unless it is already runtime-suspended.
imx708_remove(W) ==
  [(IF W.pm.status # "suspended" THEN imx708_power_off(W) ELSE W)
     EXCEPT !.pm.status = "suspended", !.ret = 0]

(***************************************************************************)
(* Attach.                                                                  *)
(***************************************************************************)
\* The controls as imx708_init_controls creates them, before
\* imx708_set_framing_limits.
NewCtrl(min, max, def) ==
  [val |-> def, cur |-> def, minimum |-> min, maximum |-> max,
   default_value |-> def, grabbed |-> FALSE]

InitialCtrls ==
  [id \in CtrlIds |->
     CASE id = "PIXEL_RATE" -> NewCtrl(IMX708_INITIAL_PIXEL_RATE,
                                       IMX708_INITIAL_PIXEL_RATE,
                                       IMX708_INITIAL_PIXEL_RATE)
       [] id \in {"VBLANK", "HBLANK"} -> NewCtrl(0, 65535, 0)
       [] id = "EXPOSURE" -> NewCtrl(IMX708_EXPOSURE_MIN, IMX708_EXPOSURE_MAX,
                                     IMX708_EXPOSURE_DEFAULT)
       [] id = "ANALOGUE_GAIN" -> NewCtrl(IMX708_ANA_GAIN_MIN, IMX708_ANA_GAIN_MAX,
                                          IMX708_ANA_GAIN_DEFAULT)
       [] id = "DIGITAL_GAIN" -> NewCtrl(IMX708_DGTL_GAIN_MIN, IMX708_DGTL_GAIN_MAX,
                                         IMX708_DGTL_GAIN_DEFAULT)
       [] id \in {"HFLIP", "VFLIP"} -> NewCtrl(0, 1, 0)
       [] id = "TEST_PATTERN" -> NewCtrl(0, Len(imx708_test_pattern_val) - 1, 0)
       [] OTHER -> NewCtrl(IMX708_TEST_PATTERN_COLOUR_MIN,
                           IMX708_TEST_PATTERN_COLOUR_MAX,
                           IMX708_TEST_PATTERN_COLOUR_MAX)]

\* The mode imx708_probe selects for the board's hdr-mode property: the
\* first catalog entry with that hdr_mode, entry 0 when there is none.
RECURSIVE probe_mode_loop(_, _)
probe_mode_loop(i, hdr_mode) ==
  IF i >= cfg_num THEN 0
  ELSE IF hdr_mode = supported_modes[i + 1].hdr_mode THEN i
  ELSE probe_mode_loop(i + 1, hdr_mode)

\* The device a successful imx708_probe leaves: identified, runtime PM
\* enabled and idle (so runtime-suspended by imx708_power_off), controls
\* created and framed for the selected mode.
imx708_probe(hdr_mode, link_freq_idx) ==
  imx708_set_framing_limits(
    [imx708 |-> [cur_mode |-> probe_mode_loop(0, hdr_mode) + 1,
                 streaming |-> FALSE, power_on |-> FALSE,
                 common_regs_written |-> FALSE, long_exp_shift |-> 0,
                 link_freq_idx |-> link_freq_idx],
     ctrls |-> InitialCtrls,
     pm |-> [usage_count |-> 0, status |-> "suspended"],
     hw |-> HwReset,
     log |-> << >>, ret |-> 0, fmt |-> NoFmt, n |-> 0,
     bus |-> [fail |-> {}, part |-> "first", rd |-> SPC_SENTINEL, pwr |-> TRUE]])

\* link_freqs[]
link_freqs == << 450000000, 447000000, 453000000 >>

IMX708_REG_CHIP_ID == 22
IMX708_CHIP_ID == 1800
IMX708_INCLK_FREQ == 24000000

\* The loop of imx708_check_hwcfg over link_freqs: the index of the entry
\* equal to freq, ARRAY_SIZE(link_freqs) when there is none.
RECURSIVE check_hwcfg_loop(_, _)
check_hwcfg_loop(i, freq) ==
  IF i = Len(link_freqs) THEN i
  ELSE IF link_freqs[i + 1] = freq THEN i
  ELSE check_hwcfg_loop(i + 1, freq)

\* imx708_check_hwcfg on the device-tree node dt: the status and the
\* link-frequency index it leaves (0 from kzalloc when it sets none).  Only
\* link_frequencies[0] is compared with the catalog.
imx708_check_hwcfg(dt) ==
  IF dt.endpoint # "ok" THEN [ret |-> -EINVAL, idx |-> 0]
  ELSE IF dt.lanes # 2 THEN [ret |-> -EINVAL, idx |-> 0]
  ELSE IF Len(dt.freqs) = 0 THEN [ret |-> -EINVAL, idx |-> 0]
  ELSE IF check_hwcfg_loop(0, dt.freqs[1]) = Len(link_freqs)
  THEN [ret |-> -EINVAL, idx |-> 0]
  ELSE [ret |-> 0, idx |-> check_hwcfg_loop(0, dt.freqs[1])]

\* imx708_identify_module after the read of the chip id: the read error, a
\* mismatch, or the read of the module id, whose failure is ignored.
identify_module_id(R) ==
  IF R.ret # 0 THEN R
  ELSE IF R.bus.rd # IMX708_CHIP_ID THEN [R EXCEPT !.ret = -EIO]
  ELSE [imx708_read_reg(R, 0, 2) EXCEPT !.ret = 0]

imx708_identify_module(W) ==
  identify_module_id(imx708_read_reg(W, IMX708_REG_CHIP_ID, 2))

\* The transfers of imx708_probe are followed by the switching of the
\* sensor's power: an entry of the log for each imx708_power_on and
\* imx708_power_off the probe makes.
PowerEvent(W, name, ok) ==
  [W EXCEPT !.log = Append(@, [k |-> "power", name |-> name, reg |-> 0,
                               val |-> 0, n |-> 0, ok |-> ok])]

\* imx708_probe after imx708_identify_module: error_power_off; or runtime
\* PM is enabled and idles the device (imx708_power_off as runtime
\* suspend), the controls are created and the subdev is registered.  A
\* failure of imx708_init_controls, media_entity_pads_init or
\* v4l2_async_register_subdev_sensor (dt.late) ends in error_power_off too.
probe_identified(I, dt, idx) ==
  IF I.ret # 0
  THEN [PowerEvent(imx708_power_off(I), "off", TRUE) EXCEPT !.ret = I.ret]
  ELSE IF dt.late # 0
  THEN [PowerEvent(PowerEvent(imx708_power_off(I), "off", TRUE), "off", TRUE)
          EXCEPT !.ret = dt.late]
  ELSE [imx708_probe(IF dt.hdr = << >> THEN NO_HDR ELSE dt.hdr[1], idx)
          EXCEPT !.log = PowerEvent(I, "off", TRUE).log, !.n = I.n,
                 !.bus = I.bus]

\* imx708_probe from imx708_power_on.
probe_powered(P, dt, idx) ==
  IF P.ret # 0 THEN P
  ELSE probe_identified(imx708_identify_module(PowerEvent(P, "on", TRUE)),
                        dt, idx)

\* imx708_probe after imx708_check_hwcfg returned hwcfg: the input clock
\* and its rate, the regulators, then the power-up.  -EIO stands for the
\* error the clock or regulator framework returns.
probe_hwcfg(W, dt, hwcfg) ==
  IF hwcfg.ret # 0 THEN [W EXCEPT !.ret = -EINVAL]
  ELSE IF ~dt.xclk THEN [W EXCEPT !.ret = -EIO]
  ELSE IF dt.rate # IMX708_INCLK_FREQ THEN [W EXCEPT !.ret = -EINVAL]
  ELSE IF ~dt.supplies THEN [W EXCEPT !.ret = -EIO]
  ELSE probe_powered(imx708_power_on(W), dt, hwcfg.idx)

\* imx708_probe of the node dt, from the zeroed instance W.
imx708_probe_node(W, dt) ==
  IF ~dt.info THEN [W EXCEPT !.ret = -EINVAL]
  ELSE probe_hwcfg(W, dt, imx708_check_hwcfg(dt))

(***************************************************************************)
(* Bounds and inputs of the model.                                          *)
(***************************************************************************)
\* The largest number of register transfers one handler performs
\* (imx708_resume: 19 of imx708_start_streaming and one of stop_streaming).
MaxOps == 20

\* Cap of the runtime-PM usage count a handler may leave.
MaxUsage == 2

\* The environment in which nothing fails and the sentinel asks for the patch.
NoFail == [fail |-> {}, part |-> "first", rd |-> SPC_SENTINEL, pwr |-> TRUE]

\* Transfer environments for a handler making at most `ops` transfers:
\* no failure (sentinel matching or not); the failure of exactly one
\* transfer; the failure of every transfer from one on; and a failing
\* imx708_power_on.
Scripts(ops) ==
  { NoFail, [NoFail EXCEPT !.rd = 0], [NoFail EXCEPT !.pwr = FALSE] }
  \cup { [fail |-> {k}, part |-> "first", rd |-> SPC_SENTINEL, pwr |-> TRUE] :
           k \in 1..ops }
  \cup { [fail |-> k..ops, part |-> "last", rd |-> 0, pwr |-> TRUE] :
           k \in 1..ops }
  \cup { [fail |-> k..ops, part |-> "last", rd |-> SPC_SENTINEL, pwr |-> TRUE] :
           k \in 3..4 }

\* Environments of a handler that only writes single registers.
WriteScripts(ops) ==
  { NoFail }
  \cup { [NoFail EXCEPT !.fail = {k}] : k \in 1..ops }
  \cup { [NoFail EXCEPT !.fail = k..ops] : k \in 1..ops }

\* Board configurations: the hdr-mode property and the link-frequency index
\* imx708_check_hwcfg resolved.
Boards == { <<HDR_X3, 1>> }

\* Control requests of the user in the streaming model.
CtrlInputs ==
  { <<"EXPOSURE", 500>>, <<"HFLIP", 1>>, <<"TEST_PATTERN", 7>>,
    <<"PIXEL_RATE", IMX708_INITIAL_PIXEL_RATE>> }

\* Format requests of the user in the streaming model: which, code, width,
\* height.
FmtInputs ==
  { <<"ACTIVE", MEDIA_BUS_FMT_SRGGB10_1X10, 1920, 1080>>,
    <<"ACTIVE", 0, 1920, 1080>>,
    <<"TRY", MEDIA_BUS_FMT_SRGGB10_1X10, 1536, 864>>,
    <<"TRY", 0, 1920, 1080>> }

(***************************************************************************)
(* Actions: one per handler.  A handler runs from an idle device           *)
(* (call = Idle) and leaves its invocation, transfers and result in call,   *)
(* log and ret; Done is the caller taking the result.                       *)
(***************************************************************************)
Call(op, id, a, b, c) == [op |-> op, id |-> id, a |-> a, b |-> b, c |-> c]

Idle == Call("idle", "", 0, 0, 0)

NoRet == [val |-> 0, fmt |-> NoFmt]

\* The number of threads that call into the driver at the same time.
NumThreads == 2

Threads == 1..NumThreads

\* A thread outside the driver.  acc names the shared fields the thread's
\* last step read or wrote, locked whether it held imx708->mutex then.
IdleTask ==
  [op |-> "none", pc |-> "idle", id |-> "", a |-> 0, b |-> 0,
   mode |-> 0, w |-> 0, h |-> 0, ret |-> 0, acc |-> {}, locked |-> FALSE]

NoTasks == [t \in Threads |-> IdleTask]

\* The state an attached device W starts in, `c` being the call that made it.
Attached(W, c) ==
  /\ imx708 = W.imx708
  /\ ctrls = W.ctrls
  /\ pm = W.pm
  /\ hw = W.hw
  /\ log = << >>
  /\ call = c
  /\ ret = NoRet
  /\ sys = "running"
  /\ mutex = 0
  /\ task = NoTasks

InitOn(boards) ==
  \E board \in boards :
    Attached(imx708_probe(board[1], board[2]),
             Call("probe", "", board[1], board[2], 0))

Init == InitOn(Boards)

\* ctrl->val of a control other than EXPOSURE is dead when a handler
\* returns: every later read of it follows a user_to_new or cur_to_new of
\* the same handler.  The state keeps such a slot equal to the current
\* value.  The slot of EXPOSURE is read by imx708_adjust_exposure_range and
\* is kept as the handler left it.
Settle(cs) ==
  [id \in CtrlIds |->
     IF id = "EXPOSURE" THEN cs[id] ELSE [cs[id] EXCEPT !.val = cs[id].cur]]

\* The state a handler leaves.
Commit(W) ==
  /\ imx708' = W.imx708
  /\ ctrls' = Settle(W.ctrls)
  /\ pm' = W.pm
  /\ hw' = W.hw
  /\ log' = W.log
  /\ ret' = [val |-> W.ret, fmt |-> W.fmt]
  /\ UNCHANGED <<mutex, task>>

\* The same for a handler that takes a usage reference: the model stops
\* where the count would pass MaxUsage.
CommitCapped(W) == W.pm.usage_count <= MaxUsage /\ Commit(W)

Running == sys = "running" /\ call = Idle

SetStream(scripts) ==
  \E enable \in {0, 1}, bus \in scripts :
    /\ Running
    /\ CommitCapped(imx708_set_stream(World(bus), enable))
    /\ call' = Call("s_stream", "", enable, 0, 0)
    /\ UNCHANGED sys

SetCtrl(inputs, scripts) ==
  \E in \in inputs, bus \in scripts :
    /\ Running
    /\ Commit(v4l2_s_ctrl(World(bus), in[1], in[2]))
    /\ call' = Call("s_ctrl", in[1], in[2], 0, 0)
    /\ UNCHANGED sys

SetFmt(inputs, scripts) ==
  \E in \in inputs, bus \in scripts :
    /\ Running
    /\ Commit(imx708_set_pad_format(World(bus), in[1],
                [code |-> in[2], width |-> in[3], height |-> in[4]]))
    /\ call' = Call("set_fmt", in[1], in[2], in[3], in[4])
    /\ UNCHANGED sys

GetFmt ==
  /\ Running
  /\ Commit(imx708_get_pad_format(World(NoFail)))
  /\ call' = Call("get_fmt", "ACTIVE", 0, 0, 0)
  /\ UNCHANGED sys

SetHdrCfg(scripts) ==
  \E hdr_mode \in {NO_HDR, HDR_X2, HDR_X3}, bus \in scripts :
    /\ Running
    /\ Commit(imx708_ioctl_set_hdr_cfg(World(bus), hdr_mode))
    /\ call' = Call("set_hdr_cfg", "", hdr_mode, 0, 0)
    /\ UNCHANGED sys

SPower(scripts) ==
  \E on \in {0, 1}, bus \in scripts :
    /\ Running
    /\ CommitCapped(imx708_s_power(World(bus), on))
    /\ call' = Call("s_power", "", on, 0, 0)
    /\ UNCHANGED sys

\* The PM core suspends the idle device: imx708_power_off as runtime
\* suspend callback.
RuntimeSuspend ==
  /\ Running
  /\ pm.status = "active"
  /\ pm.usage_count = 0
  /\ Commit([imx708_power_off(World(NoFail)) EXCEPT !.pm.status = "suspended"])
  /\ call' = Call("power_off", "", 0, 0, 0)
  /\ UNCHANGED sys

Suspend(scripts) ==
  \E bus \in scripts :
    /\ Running
    /\ Commit(imx708_suspend(World(bus)))
    /\ call' = Call("suspend", "", 0, 0, 0)
    /\ sys' = "suspended"

Resume(scripts) ==
  \E bus \in scripts :
    /\ sys = "suspended"
    /\ call = Idle
    /\ Commit(imx708_resume(World(bus)))
    /\ call' = Call("resume", "", 0, 0, 0)
    /\ sys' = "running"

Remove ==
  /\ Running
  /\ Commit(imx708_remove(World(NoFail)))
  /\ call' = Call("remove", "", 0, 0, 0)
  /\ sys' = "removed"

\* The caller has taken the result of the last handler.
Done ==
  /\ call # Idle
  /\ call' = Idle
  /\ log' = << >>
  /\ ret' = NoRet
  /\ UNCHANGED <<imx708, ctrls, pm, hw, sys, mutex, task>>

(***************************************************************************)
(* Spec: the streaming and power state machine, with a failing transport.   *)
(***************************************************************************)
Next ==
  \/ SetStream(Scripts(MaxOps))
  \/ SetCtrl(CtrlInputs, WriteScripts(3))
  \/ SetFmt(FmtInputs, WriteScripts(3))
  \/ GetFmt
  \/ SetHdrCfg(WriteScripts(3))
  \/ SPower({NoFail, [NoFail EXCEPT !.pwr = FALSE]})
  \/ RuntimeSuspend
  \/ Suspend(WriteScripts(1))
  \/ Resume(Scripts(MaxOps))
  \/ Remove
  \/ Done

Spec == Init /\ [][Next]_vars

(***************************************************************************)
(* SpecCtrl: the control pipeline on a transport that never fails, with     *)
(* vblank and exposure requests across all catalog entries.                 *)
(***************************************************************************)
CtrlBoards == { <<NO_HDR, 0>> }

\* Control requests: vblank below, inside and above the 16-bit frame
\* length, exposure below and above the limits those vblanks give.
RangeCtrlInputs ==
  { <<"VBLANK", 40>>, <<"VBLANK", 1198>>, <<"VBLANK", 3673>>,
    <<"VBLANK", 70000>>,
    <<"EXPOSURE", 500>>, <<"EXPOSURE", 3000>>, <<"EXPOSURE", 65000>> }

RangeFmtInputs ==
  { <<"ACTIVE", MEDIA_BUS_FMT_SRGGB10_1X10, 4608, 2592>>,
    <<"ACTIVE", MEDIA_BUS_FMT_SRGGB10_1X10, 1920, 1080>>,
    <<"ACTIVE", MEDIA_BUS_FMT_SRGGB10_1X10, 1536, 864>> }

InitCtrl == InitOn(CtrlBoards)

NextCtrl ==
  \/ SetCtrl(RangeCtrlInputs, {NoFail})
  \/ SetFmt(RangeFmtInputs, {NoFail})
  \/ SetHdrCfg({NoFail})
  \/ SPower({NoFail})
  \/ RuntimeSuspend
  \/ Done

SpecCtrl == InitCtrl /\ [][NextCtrl]_vars

(***************************************************************************)
(* SpecFit: imx708_find_best_fit as a function of the request alone.  The   *)
(* request is drawn in the initial state; width and height are u32.         *)
(***************************************************************************)
FitCodes == { MEDIA_BUS_FMT_SRGGB10_1X10, 0 }

\* 0x80000000 is INT_MIN and 0xFFFFFFFF is -1 in the representation.
FitWidths ==
  { 0, 1, 1536, 1728, 1920, 3264, 4608, 5000, Pow2(30), INT_MAX, INT_MIN, -1 }

FitHeights == { 0, 864, 972, 1080, 2592, Pow2(30), INT_MAX, -1 }

InitFit ==
  \E code \in FitCodes, w \in FitWidths, h \in FitHeights :
    Attached(imx708_probe(NO_HDR, 0), Call("request", "", code, w, h))

FitResult(mode) == [val |-> mode - 1, fmt |-> ModeFmt(mode)]

\* The call of imx708_find_best_fit on the request; ret.val is the source
\* index of the entry returned.
FindBestFit ==
  /\ call.op = "request"
  /\ ret' = FitResult(imx708_find_best_fit(
                         [code |-> call.a, width |-> call.b, height |-> call.c]))
  /\ call' = [call EXCEPT !.op = "find_best_fit"]
  /\ UNCHANGED <<imx708, ctrls, pm, hw, log, sys, mutex, task>>

NextFit == FindBestFit

SpecFit == InitFit /\ [][NextFit]_vars

(***************************************************************************)
(* SpecFrame: the frame length across the whole vblank range of every mode, *)
(* on a transport that never fails.                                         *)
(***************************************************************************)
\* vblank requests: small ones, those that bring the frame length of each
\* catalog height to 0xFFFF and one above it, the one that makes 131000
\* lines at height 1080, and one above every mode's maximum (clamped to it).
FrameCtrlInputs ==
  { <<"VBLANK", 40>>, <<"VBLANK", 1198>>,
    <<"VBLANK", 62943>>, <<"VBLANK", 62944>>,
    <<"VBLANK", 64455>>, <<"VBLANK", 64456>>,
    <<"VBLANK", 129920>>, <<"VBLANK", 9000000>> }

NextFrame ==
  \/ SetCtrl(FrameCtrlInputs, {NoFail})
  \/ SetFmt(RangeFmtInputs, {NoFail})
  \/ SetHdrCfg({NoFail})
  \/ SPower({NoFail})
  \/ RuntimeSuspend
  \/ Done

SpecFrame == InitCtrl /\ [][NextFrame]_vars

(***************************************************************************)
(* SpecApply: the hardware-apply phase of every control the switch of       *)
(* imx708_set_ctrl handles, on a failing transport: set by the user while   *)
(* the sensor streams, and replayed by imx708_start_streaming.              *)
(***************************************************************************)
\* One request per case of the switch, each for a value the control does
\* not hold after probe (the framework does not send an unchanged value to
\* the driver).
ApplyInputs ==
  { <<"ANALOGUE_GAIN", 200>>, <<"EXPOSURE", 500>>, <<"DIGITAL_GAIN", 512>>,
    <<"HFLIP", 1>>, <<"VFLIP", 1>>, <<"VBLANK", 5000>>,
    <<"TEST_PATTERN", 2>>, <<"TEST_PATTERN_RED", 100>>,
    <<"TEST_PATTERN_GREENR", 100>>, <<"TEST_PATTERN_BLUE", 100>>,
    <<"TEST_PATTERN_GREENB", 100>> }

\* Cap of the number of requests of ApplyInputs the controls hold at once.
MaxChanged == 2

\* The requests of ApplyInputs the controls cs hold.
Applied(cs) == { in \in ApplyInputs : cs[in[1]].cur = in[2] }

\* The controls are applied while the device is in use: while it streams,
\* or while imx708_s_power holds it powered (the flips are grabbed while it
\* streams).
NextApply ==
  \/ SetStream(Scripts(MaxOps))
  \/ SetCtrl(ApplyInputs, WriteScripts(3))
       /\ Cardinality(Applied(ctrls')) <= MaxChanged
  \/ SPower({NoFail})
  \/ RuntimeSuspend
  \/ Done

SpecApply == Init /\ [][NextApply]_vars

(***************************************************************************)
(* SpecFraming: mode commits on a failing transport, with vblank values at  *)
(* the lower end of the ranges of the modes.                                *)
(***************************************************************************)
NextFraming ==
  \/ SetCtrl({ <<"VBLANK", 40>>, <<"VBLANK", 1198>> }, {NoFail})
  \/ SetFmt(RangeFmtInputs, WriteScripts(3))
  \/ SetHdrCfg(WriteScripts(3))
  \/ SPower({NoFail})
  \/ RuntimeSuspend
  \/ Done

SpecFraming == InitCtrl /\ [][NextFraming]_vars

(***************************************************************************)
(* SpecExposure: exposure requests below the minimum of a mode, off its     *)
(* step, and above 0xFFFF, with the vblank values that allow them, on a     *)
(* transport that never fails.                                              *)
(***************************************************************************)
ExposureCtrlInputs ==
  { <<"EXPOSURE", 1>>, <<"EXPOSURE", 501>>, <<"EXPOSURE", 2229>>,
    <<"EXPOSURE", 100001>>,
    <<"VBLANK", 1198>>, <<"VBLANK", 70000>> }

NextExposure ==
  \/ SetCtrl(ExposureCtrlInputs, {NoFail})
  \/ SetFmt(RangeFmtInputs, {NoFail})
  \/ SetHdrCfg({NoFail})
  \/ SPower({NoFail})
  \/ RuntimeSuspend
  \/ Done

SpecExposure == InitCtrl /\ [][NextExposure]_vars

(***************************************************************************)
(* SpecRegs: the register loops transfer by transfer.  imx708_write_regs on *)
(* a list of (address, val) entries and the PDAF gain block of              *)
(* imx708_start_streaming, each as a function of its input and of the       *)
(* ordinals of the transfers that fail, drawn in the initial state.         *)
(***************************************************************************)
\* static const u8 pdaf_gains[2][9]
pdaf_gains_table ==
  << << 76, 76, 76, 70, 62, 56, 53, 53, 53 >>,
     << 53, 53, 53, 56, 62, 70, 76, 76, 76 >> >>

\* Variant of write_regs_loop that goes on after a failed write.
RECURSIVE write_regs_loop_no_stop(_, _, _)
write_regs_loop_no_stop(W, regs, i) ==
  IF i > Len(regs) THEN [W EXCEPT !.ret = 0]
  ELSE write_regs_loop_no_stop(
         imx708_write_reg(W, regs[i].address, 1, regs[i].val), regs, i + 1)

\* The loop of imx708_write_regs from entry i on (i counts from 1): a failed
\* write returns its error, the end of the list returns 0.
RECURSIVE write_regs_loop(_, _, _)
write_regs_loop(W, regs, i) ==
  IF i > Len(regs) THEN [W EXCEPT !.ret = 0]
  ELSE LET S == imx708_write_reg(W, regs[i].address, 1, regs[i].val)
       IN IF S.ret # 0 THEN S ELSE write_regs_loop(S, regs, i + 1)

\* Variant of pdaf_gains_loop that looks at the status of the first write
\* only.
RECURSIVE pdaf_gains_loop_no_stop(_, _, _, _)
pdaf_gains_loop_no_stop(W, t, base, i) ==
  IF i < SPC_TABLE_LEN /\ (W.ret = 0 \/ i > 0)
  THEN pdaf_gains_loop_no_stop(
         imx708_write_reg(W, base + i, 1, pdaf_gains_table[t + 1][(i % 9) + 1]),
         t, base, i + 1)
  ELSE W

\* for (i = 0; i < 54 && ret == 0; i++) ret = imx708_write_reg(base + i,
\* 8 bit, pdaf_gains[t][i % 9]), from i on.
RECURSIVE pdaf_gains_loop(_, _, _, _)
pdaf_gains_loop(W, t, base, i) ==
  IF i < SPC_TABLE_LEN /\ W.ret = 0
  THEN pdaf_gains_loop(
         imx708_write_reg(W, base + i, 1, pdaf_gains_table[t + 1][(i % 9) + 1]),
         t, base, i + 1)
  ELSE W

\* The gain loops after the read R of the sentinel register, made when the
\* read succeeded and returned the sentinel.
pdaf_gains_block(R) ==
  IF R.ret = 0 /\ R.bus.rd = SPC_SENTINEL
  THEN pdaf_gains_loop(
         pdaf_gains_loop(R, 0, IMX708_REG_BASE_SPC_GAINS_L, 0),
         1, IMX708_REG_BASE_SPC_GAINS_R, 0)
  ELSE R

MaxRegs == 3

\* Register lists of at most MaxRegs entries, drawn from the first three
\* entries of mode_common_regs.
RegLists ==
  UNION { [1..n -> { [address |-> IMX708_REG_MODE_SELECT, val |-> 0],
                     [address |-> 310, val |-> 24],
                     [address |-> 311, val |-> 0] }] : n \in 0..MaxRegs }

\* The transfers of the gain block: one read and two tables.
PatchOps == 1 + 2 * SPC_TABLE_LEN

\* Failures of the gain block: none, one transfer, every transfer from one on.
PatchFails ==
  { {} } \cup { {k} : k \in 1..PatchOps } \cup { k..PatchOps : k \in 1..PatchOps }

InitRegs ==
  \/ \E regs \in RegLists, fail \in SUBSET (1..MaxRegs) :
       Attached(imx708_probe(NO_HDR, 0), Call("list", "", regs, fail, 0))
  \/ \E fail \in PatchFails, rd \in {SPC_SENTINEL, 0} :
       Attached(imx708_probe(NO_HDR, 0), Call("patch", "", 0, fail, rd))

\* imx708_write_regs on the list and the failures of the initial state.
WriteRegs ==
  /\ call.op = "list"
  /\ Commit(write_regs_loop(World([NoFail EXCEPT !.fail = call.b]), call.a, 1))
  /\ call' = [call EXCEPT !.op = "write_regs"]
  /\ UNCHANGED sys

\* The gain block on the failures and the sentinel of the initial state.
PdafGains ==
  /\ call.op = "patch"
  /\ Commit(pdaf_gains_block(
              imx708_read_reg(World([NoFail EXCEPT !.fail = call.b,
                                                   !.rd = call.c]),
                              IMX708_REG_BASE_SPC_GAINS_L, 1)))
  /\ call' = [call EXCEPT !.op = "pdaf_gains"]
  /\ UNCHANGED sys

NextRegs == WriteRegs \/ PdafGains

SpecRegs == InitRegs /\ [][NextRegs]_vars

(***************************************************************************)
(* SpecReplay: vblank and exposure changes on a streaming sensor, whose     *)
(* controls imx708_start_streaming has replayed, on a transport that never  *)
(* fails.                                                                   *)
(***************************************************************************)
NextReplay ==
  \/ SetStream({NoFail})
  \/ SetCtrl({ <<"VBLANK", 1198>>, <<"VBLANK", 70000>>, <<"VBLANK", 129920>>,
               <<"EXPOSURE", 500>>, <<"EXPOSURE", 65000>> }, {NoFail})
  \/ Done

SpecReplay == InitCtrl /\ [][NextReplay]_vars

(***************************************************************************)
(* SpecResolve: the first two statements of imx708_set_exposure as a        *)
(* function of the mode and of the value requested, drawn in the initial    *)
(* state: values around the minimum and the step of every catalog entry,    *)
(* around 0xFFFF and up to the largest value a control holds.               *)
(***************************************************************************)
InitResolve ==
  \E m \in 1..cfg_num,
     val \in (0..170) \cup {65534, 65535, 65536, 65537, INT_MAX - 1, INT_MAX} :
    Attached(imx708_probe(NO_HDR, 0), Call("request", "EXPOSURE", m, val, 0))

\* val = max(val, exposure_lines_min); val -= val % exposure_lines_step;
\* ret.val is the value before the shift.
Resolve ==
  /\ call.op = "request"
  /\ ret' = [val |-> ResolveExposure(supported_modes[call.a], call.b),
             fmt |-> NoFmt]
  /\ call' = [call EXCEPT !.op = "set_exposure"]
  /\ UNCHANGED <<imx708, ctrls, pm, hw, log, sys, mutex, task>>

SpecResolve == InitResolve /\ [][Resolve]_vars

(***************************************************************************)
(* SpecProbe: imx708_probe as a function of the device-tree node and of     *)
(* what the sensor answers.  The node is drawn in the initial state.        *)
(***************************************************************************)
\* Device-tree nodes: module information present or not, the hdr-mode
\* property (absent, or its value), the endpoint, its lane count and its
\* list of at most two link frequencies (supported or not), the clock and
\* its rate, the regulators, and the error of a later step of the probe (0
\* when none fails).
ProbeNodes ==
  [info : BOOLEAN, hdr : { << >>, << HDR_X3 >>, << 7 >> },
   endpoint : {"ok", "none"}, lanes : {1, 2, 4},
   freqs : LET F == { 450000000, 447000000, 123000000 }
           IN { << >> } \cup { << f >> : f \in F }
                \cup { << f, g >> : f \in F, g \in F },
   xclk : BOOLEAN, rate : {IMX708_INCLK_FREQ, 25000000},
   supplies : BOOLEAN, late : {0, -EIO}]

\* What the sensor answers: power-up succeeding or not, each of the two
\* reads failing or not, and the chip id read back.
ProbeScripts ==
  { [fail |-> f, part |-> "first", rd |-> id, pwr |-> p] :
      f \in {{}, {1}, {2}}, id \in {IMX708_CHIP_ID, 1801, 0}, p \in BOOLEAN }

\* The instance devm_kzalloc returns; no control exists yet.
InitProbe ==
  \E dt \in ProbeNodes :
    /\ imx708 = [cur_mode |-> 0, streaming |-> FALSE, power_on |-> FALSE,
                 common_regs_written |-> FALSE, long_exp_shift |-> 0,
                 link_freq_idx |-> 0]
    /\ ctrls = InitialCtrls
    /\ pm = [usage_count |-> 0, status |-> "suspended"]
    /\ hw = HwReset
    /\ log = << >>
    /\ call = Call("bind", "", dt, 0, 0)
    /\ ret = NoRet
    /\ sys = "unbound"
    /\ mutex = 0
    /\ task = NoTasks

\* The i2c core binds the driver: imx708_probe.  A failed probe frees the
\* instance.
Probe ==
  \E bus \in ProbeScripts :
    LET W == imx708_probe_node(World(bus), call.a)
    IN /\ call.op = "bind"
       /\ sys = "unbound"
       /\ IF W.ret = 0
          THEN /\ imx708' = W.imx708 /\ ctrls' = W.ctrls /\ pm' = W.pm
               /\ hw' = W.hw /\ sys' = "running"
          ELSE UNCHANGED <<imx708, ctrls, pm, hw, sys>>
       /\ log' = W.log
       /\ ret' = [val |-> W.ret, fmt |-> NoFmt]
       /\ call' = [call EXCEPT !.op = "probe"]
       /\ UNCHANGED <<mutex, task>>

SpecProbe == InitProbe /\ [][Probe]_vars

(***************************************************************************)
(* SpecLock: operations of several threads, interleaved at the grain of     *)
(* imx708->mutex.  A thread enters an operation, takes the steps of its     *)
(* code and returns.  What an operation does while it holds the mutex is    *)
(* one step; what it does without the mutex is one step per access to the   *)
(* shared state.  The transport does not fail.                              *)
(***************************************************************************)
\* The operations a thread may enter: name, control id, two arguments, and
\* the position the operation starts at.  imx708_set_pad_format,
\* imx708_set_stream and the control framework (ctrl_hdlr->lock) start by
\* locking; imx708_get_pad_format and imx708_g_frame_interval start by
\* reading imx708->cur_mode; the RKMODULE_SET_HDR_CFG case of imx708_ioctl
\* starts by reading cur_mode->width.
LockOps ==
  { <<"set_fmt", "", 4608, 2592, "lock">>,
    <<"set_fmt", "", 1920, 1080, "lock">>,
    <<"s_stream", "", 1, 0, "lock">>,
    <<"s_stream", "", 0, 0, "lock">>,
    <<"s_ctrl", "EXPOSURE", 500, 0, "lock">>,
    <<"get_fmt", "", 0, 0, "mode">>,
    <<"g_frame_interval", "", 0, 0, "mode">>,
    <<"set_hdr_cfg", "", NO_HDR, 0, "w">>,
    <<"set_hdr_cfg", "", HDR_X3, 0, "w">> }

\* The device state after a step.
CommitShared(W) ==
  /\ imx708' = W.imx708
  /\ ctrls' = Settle(W.ctrls)
  /\ pm' = W.pm
  /\ hw' = W.hw

\* Thread t moves to position pc with result r, having touched the fields
\* acc of the shared state.
Move(t, pc, r, acc) ==
  task' = [task EXCEPT ![t].pc = pc, ![t].ret = r, ![t].acc = acc,
                       ![t].locked = (mutex = t)]

Enter(t) ==
  \E o \in LockOps :
    /\ task[t].op = "none"
    /\ task' = [task EXCEPT ![t] = [IdleTask EXCEPT !.op = o[1], !.id = o[2],
                                                     !.a = o[3], !.b = o[4],
                                                     !.pc = o[5]]]
    /\ UNCHANGED <<imx708, ctrls, pm, hw, log, call, ret, sys, mutex>>

\* const struct imx708_mode *mode = imx708->cur_mode, the initialiser of
\* imx708_get_pad_format and imx708_g_frame_interval, before mutex_lock.
ReadMode(t) ==
  /\ task[t].pc = "mode"
  /\ task' = [task EXCEPT ![t].pc = "lock", ![t].mode = imx708.cur_mode,
                          ![t].acc = {"cur_mode"}, ![t].locked = (mutex = t)]
  /\ UNCHANGED <<imx708, ctrls, pm, hw, log, call, ret, sys, mutex>>

\* mutex_lock(&imx708->mutex)
Lock(t) ==
  /\ task[t].pc = "lock"
  /\ mutex = 0
  /\ mutex' = t
  /\ task' = [task EXCEPT ![t].pc = "held", ![t].acc = {}, ![t].locked = TRUE]
  /\ UNCHANGED <<imx708, ctrls, pm, hw, log, call, ret, sys>>

\* The end of a locked section that ran a handler of the device: W is the
\* world the handler left.
HeldDone(t, W, acc) ==
  /\ W.pm.usage_count <= MaxUsage
  /\ CommitShared(W)
  /\ Move(t, "unlock", W.ret, acc)

\* The code between mutex_lock and mutex_unlock.
Held(t) ==
  /\ task[t].pc = "held"
  /\ \/ /\ task[t].op = "set_fmt"
        /\ HeldDone(t, imx708_set_pad_format(World(NoFail), "ACTIVE",
                          [code |-> MEDIA_BUS_FMT_SRGGB10_1X10,
                           width |-> task[t].a, height |-> task[t].b]),
                    {"cur_mode", "ctrls"})
     \/ /\ task[t].op = "s_stream"
        /\ HeldDone(t, imx708_set_stream(World(NoFail), task[t].a),
                    {"streaming", "cur_mode", "common_regs_written", "ctrls"})
     \/ /\ task[t].op = "s_ctrl"
        /\ HeldDone(t, v4l2_s_ctrl(World(NoFail), task[t].id, task[t].a),
                    {"ctrls", "cur_mode", "long_exp_shift"})
     \/ /\ task[t].op \in {"get_fmt", "g_frame_interval"}
        /\ Move(t, "unlock", 0, {})
        /\ UNCHANGED <<imx708, ctrls, pm, hw>>
  /\ UNCHANGED <<log, call, ret, sys, mutex>>

\* mutex_unlock(&imx708->mutex)
Unlock(t) ==
  /\ task[t].pc = "unlock"
  /\ mutex' = 0
  /\ task' = [task EXCEPT ![t].pc = "done", ![t].acc = {}, ![t].locked = TRUE]
  /\ UNCHANGED <<imx708, ctrls, pm, hw, log, call, ret, sys>>

\* RKMODULE_SET_HDR_CFG: w = imx708->cur_mode->width
HdrCfgWidth(t) ==
  /\ task[t].pc = "w"
  /\ task' = [task EXCEPT ![t].pc = "h",
                          ![t].w = supported_modes[imx708.cur_mode].width,
                          ![t].acc = {"cur_mode"}, ![t].locked = (mutex = t)]
  /\ UNCHANGED <<imx708, ctrls, pm, hw, log, call, ret, sys, mutex>>

\* RKMODULE_SET_HDR_CFG: h = imx708->cur_mode->height
HdrCfgHeight(t) ==
  /\ task[t].pc = "h"
  /\ task' = [task EXCEPT ![t].pc = "loop",
                          ![t].h = supported_modes[imx708.cur_mode].height,
                          ![t].acc = {"cur_mode"}, ![t].locked = (mutex = t)]
  /\ UNCHANGED <<imx708, ctrls, pm, hw, log, call, ret, sys, mutex>>

\* RKMODULE_SET_HDR_CFG: the loop over the catalog; the entry found becomes
\* the active mode, -EINVAL when there is none.
HdrCfgFound(t, i) ==
  IF i = cfg_num
  THEN /\ Move(t, "done", -EINVAL, {})
       /\ UNCHANGED imx708
  ELSE /\ Move(t, "limits", 0, {"cur_mode"})
       /\ imx708' = [imx708 EXCEPT !.cur_mode = i + 1]

HdrCfgLoop(t) ==
  /\ task[t].pc = "loop"
  /\ HdrCfgFound(t, hdr_cfg_loop(0, task[t].w, task[t].h, task[t].a))
  /\ UNCHANGED <<ctrls, pm, hw, log, call, ret, sys, mutex>>

\* RKMODULE_SET_HDR_CFG: imx708_set_framing_limits(imx708)
HdrCfgLimits(t) ==
  /\ task[t].pc = "limits"
  /\ CommitShared(imx708_set_framing_limits(World(NoFail)))
  /\ Move(t, "done", 0, {"cur_mode", "ctrls"})
  /\ UNCHANGED <<log, call, ret, sys, mutex>>

\* The operation returns to its caller.
Return(t) ==
  /\ task[t].pc = "done"
  /\ task' = [task EXCEPT ![t] = IdleTask]
  /\ UNCHANGED <<imx708, ctrls, pm, hw, log, call, ret, sys, mutex>>

NextLock ==
  \E t \in Threads :
    \/ Enter(t)
    \/ ReadMode(t)
    \/ Lock(t)
    \/ Held(t)
    \/ Unlock(t)
    \/ HdrCfgWidth(t)
    \/ HdrCfgHeight(t)
    \/ HdrCfgLoop(t)
    \/ HdrCfgLimits(t)
    \/ Return(t)

SpecLock == InitCtrl /\ [][NextLock]_vars

(***************************************************************************)
(* Vocabulary of the properties.                                            *)
(***************************************************************************)
\* The handler whose result the state holds ran imx708_start_streaming
\* through imx708_set_stream(.., 1).
StreamOnCall(c) == c.op = "s_stream" /\ c.a = 1

\* A write of IMX708_MODE_STREAMING to the mode-select register.
StreamEnable(e) ==
  /\ e.k = "write"
  /\ e.name = "reg"
  /\ e.reg = IMX708_REG_MODE_SELECT
  /\ e.val = IMX708_MODE_STREAMING

\* A register list of the given name, written completely.
ListDone(e, name, len) ==
  e.k = "list" /\ e.name = name /\ e.ok /\ e.n = len

\* The transfers l begin with the whole common list and a calibration step
\* that did not fail: the sentinel was read, and the two gain tables were
\* written if it asked for them.
CommonStepDone(l) ==
  /\ Len(l) >= 2
  /\ ListDone(l[1], "common", MODE_COMMON_NUM_REGS)
  /\ l[2].k = "read" /\ l[2].ok
  /\ l[2].val = SPC_SENTINEL =>
       /\ Len(l) >= 4
       /\ ListDone(l[3], "pdaf_L", SPC_TABLE_LEN)
       /\ ListDone(l[4], "pdaf_R", SPC_TABLE_LEN)

\* Range and default of the three framing controls.
Framing(cs) ==
  [id \in {"PIXEL_RATE", "VBLANK", "HBLANK"} |->
     << cs[id].minimum, cs[id].maximum, cs[id].default_value >>]

\* The framing ranges of catalog entry m.
ModeFraming(m) ==
  LET mode == supported_modes[m]
      hblank == mode.line_length_pix - mode.width
  IN [id \in {"PIXEL_RATE", "VBLANK", "HBLANK"} |->
        CASE id = "PIXEL_RATE" -> << mode.pixel_rate, mode.pixel_rate, mode.pixel_rate >>
          [] id = "VBLANK" ->
               << mode.vblank_min,
                  (Pow2(IMX708_LONG_EXP_SHIFT_MAX) * IMX708_FRAME_LENGTH_MAX)
                    - mode.height,
                  mode.vblank_default >>
          [] OTHER -> << hblank, hblank, hblank >>]

FlipsGrabbed(cs) == cs["HFLIP"].grabbed \/ cs["VFLIP"].grabbed

\* No catalog entry has the format code.
NoCodeMatch(code) ==
  \A i \in 1..cfg_num : supported_modes[i].bus_fmt # code

(***************************************************************************)
(* Properties of the streaming and power state machine (Spec).              *)
(***************************************************************************)
\* C1: the active mode never changes while the streaming flag is true; a
\* set-format (ACTIVE) request and an RKMODULE_SET_HDR_CFG request issued
\* while streaming return -EINVAL and leave cur_mode and the framing ranges
\* as they were.
C1_ModeFrozenWhileStreaming ==
  [][ /\ (imx708.streaming /\ imx708'.streaming)
         => imx708'.cur_mode = imx708.cur_mode
      /\ (/\ imx708.streaming
          /\ \/ call'.op = "set_hdr_cfg"
             \/ call'.op = "set_fmt" /\ call'.id = "ACTIVE")
         => /\ ret'.val = -EINVAL
            /\ imx708'.cur_mode = imx708.cur_mode
            /\ Framing(ctrls') = Framing(ctrls) ]_vars

\* C2: when imx708_set_stream(.., 1) fails after the power reference was
\* taken (a transfer of imx708_start_streaming was attempted), it returns
\* the error, the streaming flag is false, the flips are not grabbed, the
\* usage count is what it was before the call, and common_regs_written is
\* true exactly if it was true before or the common block completed.
C2_FailedStartLeavesStandby ==
  [][ (StreamOnCall(call') /\ ret'.val # 0 /\ log' # << >>)
      => /\ ret'.val = -EIO
         /\ ~imx708'.streaming
         /\ ~FlipsGrabbed(ctrls')
         /\ pm'.usage_count = pm.usage_count
         /\ imx708'.common_regs_written
              = (imx708.common_regs_written \/ CommonStepDone(log')) ]_vars

\* The same with the flips left as they were before the call.
C2_FailedStartKeepsGrab ==
  [][ (StreamOnCall(call') /\ ret'.val # 0 /\ log' # << >>)
      => /\ ret'.val = -EIO
         /\ ~imx708'.streaming
         /\ FlipsGrabbed(ctrls') = FlipsGrabbed(ctrls)
         /\ pm'.usage_count = pm.usage_count
         /\ imx708'.common_regs_written
              = (imx708.common_regs_written \/ CommonStepDone(log')) ]_vars

\* The position in l of the first entry satisfying P, 0 when there is none.
StepAt(l, k, name) ==
  LET at == { i \in 1..Len(l) : l[i].k = k /\ l[i].name = name }
  IN IF at = {} THEN 0 ELSE CHOOSE i \in at : \A j \in at : i <= j

\* The transfers of one imx708_start_streaming come in pipeline order:
\* common list, sentinel read, gain tables, mode list, link-frequency list,
\* then single control registers, then the stream-enable write.
PipelineOrder(l) ==
  LET common == StepAt(l, "list", "common")
      mode == StepAt(l, "list", "mode")
      freq == StepAt(l, "list", "link_freq")
  IN /\ common # 0 => common = 1
     /\ mode # 0 => mode = (IF common = 0 THEN 1
                            ELSE IF l[2].val = SPC_SENTINEL THEN 5 ELSE 3)
     /\ freq # 0 => (mode # 0 /\ freq = mode + 1)
     /\ \A i \in 1..Len(l) :
          (l[i].k = "write" /\ l[i].name = "reg" /\ ~StreamEnable(l[i]))
            => (freq # 0 /\ i > freq)

\* C3: imx708_set_stream(.., 1) writes the common list and the calibration
\* patch only when common_regs_written is false, then the mode list, the
\* link-frequency pair, the controls and the stream-enable register; the
\* stream-enable write is the last transfer and every transfer before it
\* succeeded.
C3_StreamEnableLastAfterSuccess ==
  [][ StreamOnCall(call')
      => /\ PipelineOrder(log')
         /\ (StepAt(log', "list", "common") # 0) => ~imx708.common_regs_written
         /\ \A i \in 1..Len(log') :
              StreamEnable(log'[i])
                => /\ i = Len(log')
                   /\ \A j \in 1..(i - 1) : log'[j].ok ]_vars

\* The order alone.
C3_PipelineOrderOnly ==
  [][ StreamOnCall(call')
      => /\ PipelineOrder(log')
         /\ (StepAt(log', "list", "common") # 0) => ~imx708.common_regs_written
         /\ \A i \in 1..Len(log') : StreamEnable(log'[i]) => i = Len(log') ]_vars

\* C4 as stated: common_regs_written is false after attach and after every
\* power-down: runtime power-off, system suspend, final release.
C4_FlagFalseAfterEveryPowerDown ==
  call.op \in {"probe", "power_off", "suspend", "remove"}
    => ~imx708.common_regs_written

\* C4, amended: common_regs_written is false after attach, after every
\* imx708_power_off (runtime suspend) and after imx708_remove, and whenever
\* the device is runtime-suspended; imx708_suspend (system sleep) leaves the
\* flag as it was.
C4_FlagFalseAfterPowerOff ==
  /\ [](call.op \in {"probe", "power_off", "remove"} => ~imx708.common_regs_written)
  /\ [](pm.status = "suspended" => ~imx708.common_regs_written)
  /\ [][ call'.op = "suspend"
         => imx708'.common_regs_written = imx708.common_regs_written ]_vars

\* A system suspend of a streaming sensor: the flag survives it.
C4_Witness ==
  /\ call.op = "suspend"
  /\ imx708.streaming
  /\ imx708.common_regs_written
  /\ Len(log) = 1

C6_StreamEnableNeedsCommonList ==
  /\ []((\E i \in 1..Len(log) : StreamEnable(log[i]))
          => hw.common_n = MODE_COMMON_NUM_REGS)
  /\ [][ (StreamOnCall(call') /\ ret'.val = 0 /\ log' # << >>
          /\ ~imx708.common_regs_written)
         => /\ ListDone(log'[1], "common", MODE_COMMON_NUM_REGS)
            /\ StepAt(log', "list", "mode") > 1 ]_vars

\* A successful start that wrote the common list and ended with the
\* stream-enable write.
C6_Witness ==
  /\ StreamOnCall(call)
  /\ ret.val = 0
  /\ imx708.streaming
  /\ ListDone(log[1], "common", MODE_COMMON_NUM_REGS)
  /\ StreamEnable(log[Len(log)])
  /\ hw.mode_select = IMX708_MODE_STREAMING

\* C7: imx708_set_stream with a request equal to the streaming flag returns
\* 0, makes no transfer and changes neither the usage count, the streaming
\* flag, the flip grabs nor common_regs_written.
C7_SetStreamIdempotent ==
  [][ (call'.op = "s_stream" /\ BoolInt(imx708.streaming) = call'.a)
      => /\ ret'.val = 0
         /\ log' = << >>
         /\ hw' = hw
         /\ pm' = pm
         /\ imx708' = imx708
         /\ ctrls' = ctrls ]_vars

\* set_stream(1) answered while the sensor is streaming.
C7_Witness ==
  /\ StreamOnCall(call)
  /\ imx708.streaming
  /\ FlipsGrabbed(ctrls)
  /\ log = << >>
  /\ ret.val = 0

Limbs(x) ==
  << IF x >= 0 THEN x \div Pow2(16) ELSE Pow2(16) + (x \div Pow2(16)),
     x % Pow2(16) >>

\* |m - x| for a catalog dimension m < 2^16 and a u32 x, as <<high, low>>
\* with value high * 2^16 + low (low may be negative).
AxisDist(m, x) ==
  LET u == Limbs(x)
  IN IF u[1] = 0
     THEN << 0, IF m >= u[2] THEN m - u[2] ELSE u[2] - m >>
     ELSE << u[1], u[2] - m >>

\* |mode.width - width| + |mode.height - height| in the integers, as
\* normalised limbs.
TrueDist(mode, framefmt) ==
  LET a == AxisDist(mode.width, framefmt.width)
      b == AxisDist(mode.height, framefmt.height)
      low == a[2] + b[2]
  IN << a[1] + b[1] + (low \div Pow2(16)), low % Pow2(16) >>

DistLess(a, b) == a[1] < b[1] \/ (a[1] = b[1] /\ a[2] < b[2])

\* The first catalog entry, in catalog order, among those of the request's
\* code that are nearest to the requested size.
NearestEntry(framefmt) ==
  CHOOSE i \in 1..cfg_num :
    /\ supported_modes[i].bus_fmt = framefmt.code
    /\ \A j \in 1..cfg_num :
         supported_modes[j].bus_fmt = framefmt.code
           => /\ ~DistLess(TrueDist(supported_modes[j], framefmt),
                           TrueDist(supported_modes[i], framefmt))
              /\ j < i => DistLess(TrueDist(supported_modes[i], framefmt),
                                   TrueDist(supported_modes[j], framefmt))

\* C8: for every request whose code matches a catalog entry,
\* imx708_find_best_fit returns the matching entry with the least
\* |dwidth| + |dheight|, the first in catalog order among equals; the request
\* (SRGGB10, 1920x1080) gets the 1920x1080 entry without HDR.
C8_FindBestFitNearest ==
  (call.op = "find_best_fit" /\ ~NoCodeMatch(call.a))
    => LET framefmt == [code |-> call.a, width |-> call.b, height |-> call.c]
       IN /\ ret.val + 1 = NearestEntry(framefmt)
          /\ (call.b = 1920 /\ call.c = 1080)
               => /\ ret.val = 1
                  /\ supported_modes[ret.val + 1].hdr_mode = NO_HDR

\* The same for requests whose width and height are at most 2^30, where no
\* difference and no sum leaves the range of int.
C8_FindBestFitNearestUpTo30Bits ==
  (call.op = "find_best_fit" /\ ~NoCodeMatch(call.a)
   /\ call.b \in 0..Pow2(30) /\ call.c \in 0..Pow2(30))
    => LET framefmt == [code |-> call.a, width |-> call.b, height |-> call.c]
       IN /\ ret.val + 1 = NearestEntry(framefmt)
          /\ (call.b = 1920 /\ call.c = 1080)
               => /\ ret.val = 1
                  /\ supported_modes[ret.val + 1].hdr_mode = NO_HDR

RegWritten(e, reg) ==
  e.k = "write" /\ e.name = "reg" /\ e.reg = reg /\ e.ok

C11_WitnessMaxShift ==
  /\ call.op = "s_ctrl"
  /\ call.id = "VBLANK"
  /\ imx708.long_exp_shift = IMX708_LONG_EXP_SHIFT_MAX
  /\ \E i \in 1..Len(log) :
       RegWritten(log[i], IMX708_REG_FRAME_LENGTH)
         /\ log[i].val = IMX708_FRAME_LENGTH_MAX

(***************************************************************************)
(* Properties of the control pipeline under a failing transport (Spec).     *)
(***************************************************************************)
\* The device is powered and in use, as pm_runtime_get_if_in_use sees it.
InUse(p) == p.status = "active" /\ p.usage_count > 0

\* The handler whose result the state holds ran imx708_start_streaming to
\* its end.
StartedOk(c, r, l) ==
  /\ StreamOnCall(c) \/ c.op = "resume"
  /\ r.val = 0
  /\ l # << >>
  /\ StreamEnable(l[Len(l)])

\* The register a control is applied to and the value its stored value
\* cs[id].cur makes on the wire, in mode m with long-exposure shift sh.
ApplyReg(id) ==
  CASE id = "VBLANK"        -> IMX708_REG_FRAME_LENGTH
    [] id = "EXPOSURE"      -> IMX708_REG_EXPOSURE
    [] id = "ANALOGUE_GAIN" -> IMX708_REG_ANALOG_GAIN
    [] id = "HFLIP"         -> IMX708_REG_ORIENTATION
    [] id = "TEST_PATTERN"  -> IMX708_REG_TEST_PATTERN
    [] OTHER                -> CtrlReg(id)

ApplyVal(id, cs, m, sh) ==
  CASE id = "VBLANK" ->
         FrameLengthLoop(supported_modes[m].height + cs[id].cur, 0).val
    [] id = "EXPOSURE" ->
         Shr(ResolveExposure(supported_modes[m], cs[id].cur), sh) % Pow2(16)
    [] id = "HFLIP" -> cs["HFLIP"].cur + 2 * cs["VFLIP"].cur
    [] id = "TEST_PATTERN" -> imx708_test_pattern_val[cs[id].cur + 1]
    [] OTHER -> cs[id].cur

\* The replay step of the transfers l (those after the link-frequency list)
\* holds a write of control id's stored value; `sure` asks for the write to
\* have succeeded.
Replayed(l, id, cs, m, sh, sure) ==
  \E i \in (StepAt(l, "list", "link_freq") + 1)..Len(l) :
    /\ l[i].k = "write"
    /\ l[i].name = "reg"
    /\ l[i].reg = ApplyReg(id)
    /\ l[i].val = ApplyVal(id, cs, m, sh)
    /\ sure => l[i].ok

\* The writable controls, a cluster standing at its master.
ReplayIds == { SetupOrder[i] : i \in 1..Len(SetupOrder) }

\* A control request the framework hands to the driver: a writable control
\* and, for the menu, an index of the menu.
Accepted(c, cs) ==
  /\ c.op = "s_ctrl"
  /\ c.id \notin ReadOnlyCtrls
  /\ ValidateErr(cs[c.id], c.id, c.a) = 0

\* C12: a control set while power is not in use makes no transfer, returns
\* 0 and is stored; and a start_streaming that succeeds has written the
\* stored value of every writable control in its replay step.
C12_StoredThenReplayed ==
  [][ /\ (Accepted(call', ctrls) /\ ~InUse(pm))
         => /\ ret'.val = 0
            /\ log' = << >>
            /\ hw' = hw
            /\ ctrls'[call'.id].cur = ValidateVal(ctrls[call'.id], call'.id, call'.a)
      /\ StartedOk(call', ret', log')
         => \A id \in ReplayIds :
              /\ Replayed(log', id, ctrls', imx708'.cur_mode,
                          imx708'.long_exp_shift, TRUE)
              /\ id # "EXPOSURE" => ctrls'[id].cur = ctrls[id].cur ]_vars

\* The same, the write of the analogue gain being attempted only.
C12_StoredThenReplayAttempted ==
  [][ /\ (Accepted(call', ctrls) /\ ~InUse(pm))
         => /\ ret'.val = 0
            /\ log' = << >>
            /\ hw' = hw
            /\ ctrls'[call'.id].cur = ValidateVal(ctrls[call'.id], call'.id, call'.a)
      /\ StartedOk(call', ret', log')
         => \A id \in ReplayIds :
              /\ Replayed(log', id, ctrls', imx708'.cur_mode,
                          imx708'.long_exp_shift, id # "ANALOGUE_GAIN")
              /\ id # "EXPOSURE" => ctrls'[id].cur = ctrls[id].cur ]_vars

(***************************************************************************)
(* Properties of the control handler on a sound transport (SpecCtrl).       *)
(***************************************************************************)
\* The handler whose result the state holds committed a mode and ran
\* imx708_set_framing_limits.  There the framework calls imx708_set_ctrl
\* for PIXEL_RATE and HBLANK, ids its switch does not handle, whenever the
\* new range moves their value.
ModeCommitted(c, r) ==
  \/ c.op = "set_fmt" /\ c.id = "ACTIVE"
  \/ c.op = "set_hdr_cfg" /\ r.val = 0

\* The registers imx708_set_framing_limits can reach: those of the vblank
\* and exposure controls.
FramingRegs ==
  { IMX708_REG_FRAME_LENGTH, IMX708_LONG_EXP_SHIFT_REG, IMX708_REG_EXPOSURE }

GrabFollowsStreaming(cs, im) ==
  \A id \in {"HFLIP", "VFLIP"} : cs[id].grabbed = im.streaming

\* C14: in every reachable state, after any sequence of set_stream, suspend
\* and resume including failed ones, the flips are grabbed if and only if
\* the streaming flag is true.
C14_FlipsGrabbedIffStreaming == GrabFollowsStreaming(ctrls, imx708)

\* Every handler other than a failing imx708_resume keeps the flips grabbed
\* exactly while streaming.
C14_GrabKeptExceptFailedResume ==
  [][ (GrabFollowsStreaming(ctrls, imx708)
       /\ ~(call'.op = "resume" /\ ret'.val # 0))
      => GrabFollowsStreaming(ctrls', imx708') ]_vars

\* A write of IMX708_MODE_STANDBY to the mode-select register, attempted.
StreamDisable(e) ==
  /\ e.k = "write"
  /\ e.name = "reg"
  /\ e.reg = IMX708_REG_MODE_SELECT
  /\ e.val = IMX708_MODE_STANDBY

\* C15: imx708_set_stream(.., 0) on a streaming sensor makes the one
\* stream-disable write and, whether or not that write succeeds, returns 0,
\* clears the streaming flag, drops exactly one usage reference and releases
\* both flips.
C15_StopAlwaysCompletes ==
  [][ (call'.op = "s_stream" /\ call'.a = 0 /\ imx708.streaming)
      => /\ Len(log') = 1
         /\ StreamDisable(log'[1])
         /\ ret'.val = 0
         /\ ~imx708'.streaming
         /\ pm.usage_count >= 1
         /\ pm'.usage_count = pm.usage_count - 1
         /\ pm'.status = pm.status
         /\ ~ctrls'["HFLIP"].grabbed
         /\ ~ctrls'["VFLIP"].grabbed ]_vars

\* A stop whose stream-disable write failed: the sensor still streams, the
\* driver is in standby with the flips released.
C15_Witness ==
  /\ call.op = "s_stream"
  /\ call.a = 0
  /\ Len(log) = 1
  /\ StreamDisable(log[1])
  /\ ~log[1].ok
  /\ ret.val = 0
  /\ ~imx708.streaming
  /\ ~FlipsGrabbed(ctrls)
  /\ hw.mode_select = IMX708_MODE_STREAMING

\* C16: when pm_runtime_get_sync fails in imx708_set_stream(.., 1) (the
\* sensor could not be powered up, so it is still runtime-suspended), the
\* call returns the error, no transfer is attempted, the streaming flag
\* stays false and the usage count is what it was before the call.
C16_FailedPowerAcquisition ==
  [][ (StreamOnCall(call') /\ ~imx708.streaming /\ pm'.status = "suspended")
      => /\ ret'.val = -EIO
         /\ log' = << >>
         /\ hw' = hw
         /\ ~imx708'.streaming
         /\ imx708' = imx708
         /\ pm' = pm
         /\ ~FlipsGrabbed(ctrls') ]_vars

\* A set_stream(1) refused because the sensor could not be powered up.
C16_Witness ==
  /\ StreamOnCall(call)
  /\ ret.val = -EIO
  /\ log = << >>
  /\ pm.status = "suspended"
  /\ pm.usage_count = 0
  /\ ~imx708.streaming

(***************************************************************************)
(* Properties of locking (SpecLock).                                        *)
(***************************************************************************)
\* C17: every read and write of the shared sensor state is made by a thread
\* that holds imx708->mutex.
C17_StateTouchedUnderMutex ==
  \A t \in Threads : task[t].acc # {} => task[t].locked

\* The operations that lock before they touch the state exclude each other:
\* set-format, set_stream and control application touch the state only
\* with the mutex held, and at most one thread is inside a locked section.
C17_LockingOpsExclude ==
  /\ \A t \in Threads :
       task[t].op \in {"set_fmt", "s_stream", "s_ctrl"}
         => (task[t].acc # {} => task[t].locked)
  /\ \A t \in Threads :
       task[t].pc \in {"held", "unlock"} => mutex = t

\* No two operations interleave, seen from RKMODULE_SET_HDR_CFG: the width
\* and height it searches the catalog for are those of one catalog entry.
C17_HdrCfgSeesOneMode ==
  \A t \in Threads :
    (task[t].op = "set_hdr_cfg" /\ task[t].pc = "loop")
      => \E m \in 1..cfg_num :
           /\ supported_modes[m].width = task[t].w
           /\ supported_modes[m].height = task[t].h

\* No two operations interleave, seen from imx708_get_pad_format: the mode
\* it reports while it holds the mutex is the active mode.
C17_GetFmtSeesActiveMode ==
  \A t \in Threads :
    (task[t].op = "get_fmt" /\ task[t].pc = "held")
      => task[t].mode = imx708.cur_mode

(***************************************************************************)
(* Properties of the calibration step.                                      *)
(***************************************************************************)
\* A write of one of the two PDAF gain tables, complete or not.
GainTable(e) == e.k = "list" /\ e.name \in {"pdaf_L", "pdaf_R"}

\* The sentinel read asked for the gain tables.
SentinelMatch(e) == e.k = "read" /\ e.ok /\ e.val = SPC_SENTINEL

\* C18: in a start that wrote the common list, the next transfer is the
\* read of the sentinel register; a gain table is written if and only if
\* that read succeeded and returned 0x40 (the left table first, the right
\* one after it when the left was written whole); and when the read
\* succeeded with another value no table is written, the next transfer is
\* the mode register list and the start succeeds if no transfer fails.
C18_SentinelGatesTables ==
  [][ (/\ StreamOnCall(call') \/ call'.op = "resume"
       /\ log' # << >>
       /\ ListDone(log'[1], "common", MODE_COMMON_NUM_REGS))
      => /\ Len(log') >= 2
         /\ log'[2].k = "read"
         /\ log'[2].reg = IMX708_REG_BASE_SPC_GAINS_L
         /\ (\E i \in 1..Len(log') : GainTable(log'[i]))
              <=> SentinelMatch(log'[2])
         /\ SentinelMatch(log'[2])
              => /\ Len(log') >= 3
                 /\ log'[3].k = "list" /\ log'[3].name = "pdaf_L"
                 /\ log'[3].reg = IMX708_REG_BASE_SPC_GAINS_L
                 /\ log'[3].ok
                      => /\ Len(log') >= 4
                         /\ log'[4].k = "list" /\ log'[4].name = "pdaf_R"
                         /\ log'[4].reg = IMX708_REG_BASE_SPC_GAINS_R
         /\ (log'[2].ok /\ ~SentinelMatch(log'[2]))
              => /\ Len(log') >= 3
                 /\ log'[3].k = "list" /\ log'[3].name = "mode"
                 /\ (\A i \in 1..Len(log') : log'[i].ok) => ret'.val = 0
         /\ ~log'[2].ok
              => /\ ret'.val # 0
                 /\ \A i \in 1..Len(log') :
                      ~(log'[i].k = "list" /\ log'[i].name = "mode") ]_vars

\* A successful start in which the sentinel register held another value:
\* the mode list follows the read and the sensor streams.
C18_Witness ==
  /\ StreamOnCall(call)
  /\ ret.val = 0
  /\ imx708.streaming
  /\ Len(log) >= 3
  /\ ListDone(log[1], "common", MODE_COMMON_NUM_REGS)
  /\ log[2].k = "read" /\ log[2].ok /\ log[2].val # SPC_SENTINEL
  /\ ListDone(log[3], "mode", supported_modes[imx708.cur_mode].num_of_regs)
  /\ \A i \in 1..Len(log) : ~GainTable(log[i])

(***************************************************************************)
(* Properties of the hardware-apply phase under transport failures.         *)
(***************************************************************************)
\* A failed single-register write among the transfers l from position k on,
\* the stream-enable write left aside; `gain` tells whether a write of the
\* analogue gain counts.
ApplyWriteFailed(l, k, gain) ==
  \E i \in k..Len(l) :
    /\ l[i].k = "write"
    /\ ~l[i].ok
    /\ l[i].reg # IMX708_REG_MODE_SELECT
    /\ gain \/ l[i].reg # IMX708_REG_ANALOG_GAIN

\* C19: a failed register write of the hardware-apply phase of a control is
\* returned as an error by the control set, and a failed register write in
\* the control replay makes imx708_set_stream(.., 1) and imx708_resume
\* return an error.
C19_ApplyFailureReturned ==
  [][ /\ (call'.op = "s_ctrl" /\ ApplyWriteFailed(log', 1, TRUE))
         => ret'.val # 0
      /\ ((StreamOnCall(call') \/ call'.op = "resume")
          /\ StepAt(log', "list", "link_freq") > 0
          /\ ApplyWriteFailed(log', StepAt(log', "list", "link_freq") + 1, TRUE))
         => ret'.val # 0 ]_vars

\* The same for every control but the analogue gain.
C19_ApplyFailureReturnedButGain ==
  [][ /\ (call'.op = "s_ctrl" /\ ApplyWriteFailed(log', 1, FALSE))
         => ret'.val # 0
      /\ ((StreamOnCall(call') \/ call'.op = "resume")
          /\ StepAt(log', "list", "link_freq") > 0
          /\ ApplyWriteFailed(log', StepAt(log', "list", "link_freq") + 1, FALSE))
         => ret'.val # 0 ]_vars

\* The failed write of the analogue gain is not returned: the control set
\* returns 0 and stores the value the sensor did not take.
C19_GainFailureSwallowed ==
  [][ (/\ call'.op = "s_ctrl"
       /\ call'.id = "ANALOGUE_GAIN"
       /\ log' # << >>
       /\ ~log'[1].ok)
      => /\ ret'.val = 0
         /\ ctrls'["ANALOGUE_GAIN"].cur = call'.a ]_vars

(***************************************************************************)
(* Properties of detach.                                                    *)
(***************************************************************************)
\* C20: imx708_remove of a streaming device writes the stream-disable
\* register and clears the streaming flag.
C20_RemoveForcesStreamOff ==
  [][ (call'.op = "remove" /\ imx708.streaming)
      => /\ \E i \in 1..Len(log') : StreamDisable(log'[i])
         /\ ~imx708'.streaming ]_vars

\* What imx708_remove does: no transfer at all, the streaming flag and the
\* flip grabs left as they were, the power cut (common_regs_written false,
\* device runtime-suspended).
C20_RemoveCutsPowerOnly ==
  [][ call'.op = "remove"
      => /\ log' = << >>
         /\ imx708'.streaming = imx708.streaming
         /\ FlipsGrabbed(ctrls') = FlipsGrabbed(ctrls)
         /\ ~imx708'.common_regs_written
         /\ pm'.status = "suspended" ]_vars

\* A streaming device was detached: the flag is still true and the sensor
\* was never told to stop.
C20_RemovedWhileStreaming ==
  /\ call.op = "remove"
  /\ imx708.streaming
  /\ log = << >>
  /\ pm.status = "suspended"

(***************************************************************************)
(* Properties of attach (SpecProbe).                                        *)
(***************************************************************************)
\* The sensor is off after the transfers l: the last switching of its
\* power, if any, did not turn it on.
PoweredOff(l) ==
  \A i \in 1..Len(l) :
    (l[i].k = "power" /\ l[i].name = "on")
      => \E j \in (i + 1)..Len(l) : l[j].k = "power" /\ l[j].name = "off"

\* The positions of dt.freqs that hold a catalog frequency.
SupportedFreqs(dt) ==
  { i \in 1..Len(dt.freqs) :
      \E j \in 1..Len(link_freqs) : link_freqs[j] = dt.freqs[i] }

\* The chip id was read back and is not IMX708_CHIP_ID.
ChipIdMismatch(l) ==
  \E i \in 1..Len(l) :
    /\ l[i].k = "read" /\ l[i].reg = IMX708_REG_CHIP_ID
    /\ l[i].ok /\ l[i].val # IMX708_CHIP_ID

\* The probe failed: an error is returned, the device did not come up and
\* the sensor is off.
AttachFailed(r, y, l) == r.val < 0 /\ y = "unbound" /\ PoweredOff(l)

\* C21: imx708_probe fails, with the sensor left off, when the lane count
\* is not 2, when the link-frequency list does not hold exactly one
\* catalog frequency, when the input clock is not 24 MHz, or when the chip
\* id read back is not 0x0708.
C21_MismatchFailsAttach ==
  [][ (/\ call'.op = "probe"
       /\ \/ call'.a.lanes # 2
          \/ Cardinality(SupportedFreqs(call'.a)) # 1
          \/ call'.a.rate # IMX708_INCLK_FREQ
          \/ ChipIdMismatch(log'))
      => AttachFailed(ret', sys', log') ]_vars

\* The same, the link-frequency mismatch being that of the first entry of
\* the list: the list is empty or its first entry is no catalog frequency.
C21_FirstFreqMismatchFailsAttach ==
  [][ (/\ call'.op = "probe"
       /\ \/ call'.a.lanes # 2
          \/ call'.a.freqs = << >>
          \/ 1 \notin SupportedFreqs(call'.a)
          \/ call'.a.rate # IMX708_INCLK_FREQ
          \/ ChipIdMismatch(log'))
      => AttachFailed(ret', sys', log') ]_vars

\* A device that came up although its node lists two catalog frequencies.
C21_TwoFrequenciesAccepted ==
  /\ call.op = "probe"
  /\ ret.val = 0
  /\ sys = "running"
  /\ Cardinality(SupportedFreqs(call.a)) = 2

(***************************************************************************)
(* Properties of the exposure and framing ranges (SpecCtrl).                *)
(***************************************************************************)
\* The exposure maximum the mode m and the vblank value of cs give.
ExposureMax(m, cs) ==
  supported_modes[m].height + cs["VBLANK"].cur - IMX708_EXPOSURE_OFFSET

\* C22: in every state the exposure maximum is the height of the active
\* mode plus the vblank value minus 48.
C22_ExposureMaxFollowsActiveMode ==
  ctrls["EXPOSURE"].maximum = ExposureMax(imx708.cur_mode, ctrls)

\* The exposure maximum is that of the mode and vblank value of the last
\* handler that changed the vblank value: a handler that changes it leaves
\* the maximum of the active mode, a handler that does not leaves the
\* maximum as it was.
C22_ExposureMaxOfLastVblankChange ==
  [][ IF ctrls'["VBLANK"].cur # ctrls["VBLANK"].cur
      THEN ctrls'["EXPOSURE"].maximum = ExposureMax(imx708'.cur_mode, ctrls')
      ELSE ctrls'["EXPOSURE"].maximum = ctrls["EXPOSURE"].maximum ]_vars

\* A mode was committed whose vblank range holds the vblank value: the
\* exposure maximum is still that of the mode left.
C22_StaleExposureMax ==
  /\ call.op \in {"set_fmt", "set_hdr_cfg"}
  /\ ret.val = 0
  /\ ctrls["EXPOSURE"].maximum # ExposureMax(imx708.cur_mode, ctrls)

\* C23: in every state the ranges of vblank, hblank and pixel rate are
\* those of the active mode, and the vblank value lies in its range.
C23_FramingMatchesActiveMode ==
  /\ Framing(ctrls) = ModeFraming(imx708.cur_mode)
  /\ ctrls["VBLANK"].cur >= ctrls["VBLANK"].minimum
  /\ ctrls["VBLANK"].cur <= ctrls["VBLANK"].maximum

\* The ranges alone: in every state the ranges of vblank, hblank and pixel
\* rate are those of the active mode.
C23_FramingRangesMatchActiveMode ==
  Framing(ctrls) = ModeFraming(imx708.cur_mode)

\* A mode was committed while a register write failed: the vblank value is
\* below the minimum of the new mode.
C23_VblankBelowRange ==
  /\ call.op \in {"set_fmt", "set_hdr_cfg"}
  /\ \E i \in 1..Len(log) : ~log[i].ok
  /\ ctrls["VBLANK"].cur < supported_modes[imx708.cur_mode].vblank_min

(***************************************************************************)
(* Properties of a vblank change with power in use (SpecCtrl).              *)
(***************************************************************************)
\* A vblank request of the user that reached the hardware.
VblankApplied(c, l) == c.op = "s_ctrl" /\ c.id = "VBLANK" /\ l # << >>

\* C24: in a vblank change applied with power in use, every write of the
\* exposure register comes after the writes of the frame-length register
\* and of the shift register.
C24_FrameLengthBeforeExposure ==
  [][ VblankApplied(call', log')
      => \A i \in 1..Len(log') :
           log'[i].reg = IMX708_REG_EXPOSURE
             => /\ \E j \in 1..(i - 1) : log'[j].reg = IMX708_REG_FRAME_LENGTH
                /\ \E j \in 1..(i - 1) : log'[j].reg = IMX708_LONG_EXP_SHIFT_REG ]_vars

\* What the handler does: when the new range clamps the exposure, the
\* exposure register is written first, shifted by the long-exposure shift
\* of before the change; the frame-length and shift registers follow.
C24_ExposureBeforeFrameLength ==
  [][ VblankApplied(call', log')
      => LET n == Len(log')
         IN /\ n \in {2, 3}
            /\ log'[n - 1].reg = IMX708_REG_FRAME_LENGTH
            /\ log'[n].reg = IMX708_LONG_EXP_SHIFT_REG
            /\ log'[n].val = imx708'.long_exp_shift
            /\ n = 3
                 => /\ log'[1].reg = IMX708_REG_EXPOSURE
                    /\ ctrls'["EXPOSURE"].cur = ctrls'["EXPOSURE"].maximum
                    /\ log'[1].val
                         = Shr(ResolveExposure(supported_modes[imx708'.cur_mode],
                                               ctrls'["EXPOSURE"].cur),
                               imx708.long_exp_shift) % Pow2(16) ]_vars

\* A vblank change that lowered the shift from 1 to 0 and clamped the
\* exposure: the exposure register holds half the clamped value.
C24_ExposureWithStaleShift ==
  /\ VblankApplied(call, log)
  /\ Len(log) = 3
  /\ log[1].reg = IMX708_REG_EXPOSURE
  /\ imx708.long_exp_shift = 0
  /\ log[1].val # ctrls["EXPOSURE"].cur

(***************************************************************************)
(* Properties of the long-exposure shift (SpecFrame).                       *)
(***************************************************************************)
\* The number of halvings that bring the frame length of mode m with the
\* vblank value of cs down to at most 0xFFFF.
Halvings(m, cs) ==
  FrameLengthLoop(supported_modes[m].height + cs["VBLANK"].cur, 0).shift

C25_Witness ==
  /\ call.op = "s_ctrl"
  /\ call.id = "VBLANK"
  /\ ret.val = 0
  /\ ~InUse(pm)
  /\ ctrls["VBLANK"].cur = call.a
  /\ Halvings(imx708.cur_mode, ctrls) = 1
  /\ imx708.long_exp_shift = 0

ExposureLines(mode, e, sh) ==
  LET m == IF e > mode.exposure_lines_min THEN e ELSE mode.exposure_lines_min
  IN (m - (m % mode.exposure_lines_step)) \div (2 ^ sh)

\* An exposure request of the user that reached the hardware.
ExposureApplied(c, l) == c.op = "s_ctrl" /\ c.id = "EXPOSURE" /\ l # << >>

\* C26: the value an exposure request puts in the exposure register is
\* ((m - (m mod step)) >> s), m being the larger of the exposure and the
\* minimum of the mode, whatever the mode, HDR or not.
C26_ExposureResolution ==
  [][ ExposureApplied(call', log')
      => /\ Len(log') = 1
         /\ log'[1].k = "write"
         /\ log'[1].reg = IMX708_REG_EXPOSURE
         /\ log'[1].val = ExposureLines(supported_modes[imx708'.cur_mode],
                                        ctrls'["EXPOSURE"].cur,
                                        imx708'.long_exp_shift) ]_vars

\* The same for the 16 bits the register takes.
C26_ExposureResolutionLow16 ==
  [][ ExposureApplied(call', log')
      => /\ Len(log') = 1
         /\ log'[1].k = "write"
         /\ log'[1].reg = IMX708_REG_EXPOSURE
         /\ log'[1].val = ExposureLines(supported_modes[imx708'.cur_mode],
                                        ctrls'["EXPOSURE"].cur,
                                        imx708'.long_exp_shift) % Pow2(16) ]_vars

\* An exposure request written cut to 16 bits.
C26_ExposureTruncated ==
  /\ ExposureApplied(call, log)
  /\ ret.val = 0
  /\ log[1].val # ExposureLines(supported_modes[imx708.cur_mode],
                                ctrls["EXPOSURE"].cur, imx708.long_exp_shift)

(***************************************************************************)
(* Properties of the register loops (SpecRegs).                             *)
(***************************************************************************)
\* The ordinal of the first failing transfer among the first n, n + 1 when
\* none of them fails.
FirstFailure(fail, n) ==
  IF fail \cap (1..n) = {} THEN n + 1
  ELSE CHOOSE k \in fail \cap (1..n) : \A j \in fail \cap (1..n) : k <= j

\* Transfer e is the 8-bit write of val to address, made with result ok.
IsWrite(e, address, val, ok) ==
  /\ e.k = "write"
  /\ e.reg = address
  /\ e.val = val
  /\ e.ok = ok

\* C27: imx708_write_regs writes the entries in list order; at the first
\* failing transfer it stops, writes no later entry, does not retry and
\* returns the error; the entries before the failing one are written.
C27_ListOrderStopAtFailure ==
  [][ call'.op = "write_regs"
      => LET regs == call'.a
             f == FirstFailure(call'.b, Len(regs))
             last == IF f <= Len(regs) THEN f ELSE Len(regs)
         IN /\ Len(log') = last
            /\ \A j \in 1..last :
                 IsWrite(log'[j], regs[j].address, regs[j].val, j # f)
            /\ ret'.val = IF f <= Len(regs) THEN -EIO ELSE 0 ]_vars

\* A list whose second write failed: the first entry is written, the third
\* is not attempted although its transfer would have succeeded.
C27_Witness ==
  /\ call.op = "write_regs"
  /\ Len(call.a) = 3
  /\ call.b = {2}
  /\ Len(log) = 2
  /\ log[1].ok /\ ~log[2].ok
  /\ ret.val = -EIO

\* The transfer the gain block makes at ordinal j >= 2, made with result ok.
IsGainWrite(e, j, ok) ==
  LET t == (j - 2) \div SPC_TABLE_LEN
      i == (j - 2) % SPC_TABLE_LEN
      base == IF t = 0 THEN IMX708_REG_BASE_SPC_GAINS_L
              ELSE IMX708_REG_BASE_SPC_GAINS_R
  IN IsWrite(e, base + i, pdaf_gains_table[t + 1][(i % 9) + 1], ok)

\* The gain block read the sentinel value.
PatchApplied(c, l) ==
  /\ c.op = "pdaf_gains"
  /\ l[1].k = "read" /\ l[1].ok /\ l[1].val = SPC_SENTINEL

\* C29: the patch writes 54 entries at 0x7b10 then 54 at 0x7c00, entry i of
\* table t at base_t + i with value pattern_t[i mod 9]; a failed write is
\* the last transfer of the patch and the patch returns its error.
C29_PatchTables ==
  [][ PatchApplied(call', log')
      => LET f == FirstFailure(call'.b, PatchOps)
             last == IF f <= PatchOps THEN f ELSE PatchOps
         IN /\ Len(log') = last
            /\ \A j \in 2..last : IsGainWrite(log'[j], j, j # f)
            /\ ret'.val = IF f <= PatchOps THEN -EIO ELSE 0 ]_vars

\* The whole patch written.
C29_Witness ==
  /\ PatchApplied(call, log)
  /\ Len(log) = PatchOps
  /\ IsWrite(log[PatchOps], IMX708_REG_BASE_SPC_GAINS_R + 53, 76, TRUE)
  /\ ret.val = 0

\* A patch that failed in the first table: nothing of the second was sent.
C29_FailedInFirstTable ==
  /\ PatchApplied(call, log)
  /\ Len(log) = 11
  /\ ~log[11].ok
  /\ \A j \in 1..Len(log) : log[j].reg < IMX708_REG_BASE_SPC_GAINS_R
  /\ ret.val = -EIO

(***************************************************************************)
(* Properties of the common block of imx708_start_streaming (Spec).         *)
(***************************************************************************)
\* A transfer of the common list, whole or cut short.
CommonList(e) == e.k = "list" /\ e.name = "common"

\* The read of the sentinel register.
SentinelRead(e) == e.k = "read" /\ e.reg = IMX708_REG_BASE_SPC_GAINS_L

\* The transfers l hold the common list at most once, and a sentinel read
\* only right after the whole common list.
CommonBlockShape(l) ==
  /\ Cardinality({ i \in 1..Len(l) : CommonList(l[i]) }) <= 1
  /\ \A i \in 1..Len(l) :
       SentinelRead(l[i])
         => i > 1 /\ ListDone(l[i - 1], "common", MODE_COMMON_NUM_REGS)

\* C28 as stated: the common list and the calibration step run at most once
\* per power cycle, the calibration step only after the whole common list:
\* a handler sends the common list only to a sensor that holds none of it
\* since it was powered up, and sends nothing of the block once
\* common_regs_written is true.
C28_CommonBlockOncePerPowerCycle ==
  [][ /\ CommonBlockShape(log')
      /\ \A i \in 1..Len(log') :
           (CommonList(log'[i]) \/ SentinelRead(log'[i]))
             => ~imx708.common_regs_written /\ hw.common_n = 0 ]_vars

\* C28, amended: the block runs only while common_regs_written is false,
\* the calibration step only right after the whole common list; the flag,
\* once true, stays true until the device is powered down or released.
C28_CommonBlockOnlyWhileFlagFalse ==
  [][ /\ CommonBlockShape(log')
      /\ \A i \in 1..Len(log') :
           (CommonList(log'[i]) \/ SentinelRead(log'[i]))
             => ~imx708.common_regs_written
      /\ (imx708.common_regs_written /\ ~imx708'.common_regs_written)
           => (pm'.status = "suspended" \/ call'.op = "remove") ]_vars

\* A start with the flag true: the mode list is the first transfer.
C28_Witness ==
  /\ StreamOnCall(call)
  /\ imx708.common_regs_written
  /\ hw.common_n = MODE_COMMON_NUM_REGS
  /\ ret.val = 0
  /\ Len(log) >= 1
  /\ ListDone(log[1], "mode", supported_modes[imx708.cur_mode].num_of_regs)

(***************************************************************************)
(* Properties of RKMODULE_SET_HDR_CFG (SpecFraming).                        *)
(***************************************************************************)
\* The catalog entries of the size of entry m and of HDR variant hdr_mode.
HdrMatches(m, hdr_mode) ==
  { e \in 1..cfg_num :
      /\ supported_modes[e].width = supported_modes[m].width
      /\ supported_modes[e].height = supported_modes[m].height
      /\ supported_modes[e].hdr_mode = hdr_mode }

\* RKMODULE_SET_HDR_CFG with no other operation running beside it: it
\* commits the catalog entry of the active mode's width and height and of
\* the requested HDR variant and sets the framing ranges to those of that
\* entry; when there is none it returns -EINVAL, makes no transfer and
\* leaves the active mode and every control as it was.
C30_HdrOverrideAlone ==
  [][ call'.op = "set_hdr_cfg"
      => LET match == HdrMatches(imx708.cur_mode, call'.a)
         IN IF match = {}
            THEN /\ ret'.val = -EINVAL
                 /\ imx708' = imx708
                 /\ ctrls' = ctrls
                 /\ log' = << >>
            ELSE /\ ret'.val = 0
                 /\ match = {imx708'.cur_mode}
                 /\ Framing(ctrls') = ModeFraming(imx708'.cur_mode) ]_vars

\* The override took 1920x1080 to its HDR entry; the vblank range is the
\* one of that entry.
C30_Committed ==
  /\ call.op = "set_hdr_cfg"
  /\ call.a = HDR_X3
  /\ ret.val = 0
  /\ supported_modes[imx708.cur_mode].hdr_mode = HDR_X3
  /\ ctrls["VBLANK"].minimum = supported_modes[imx708.cur_mode].vblank_min

\* HDR asked for at 4608x2592: rejected.
C30_Rejected ==
  /\ call.op = "set_hdr_cfg"
  /\ call.a = HDR_X3
  /\ ret.val = -EINVAL
  /\ supported_modes[imx708.cur_mode].width = 4608

\* C30: RKMODULE_SET_HDR_CFG commits the catalog entry of the width and
\* height of the active mode and of the requested HDR variant, and returns
\* -EINVAL, the active mode unchanged, when that mode has no such entry;
\* stated for the search step of an override that runs among the other
\* operations (SpecLock).
C30_HdrOverrideOfActiveMode ==
  [][ \A t \in Threads :
        (task[t].op = "set_hdr_cfg" /\ task[t].pc = "loop"
           /\ task'[t].pc # "loop")
          => LET match == HdrMatches(imx708.cur_mode, task[t].a)
             IN IF match = {}
                THEN task'[t].ret = -EINVAL /\ imx708' = imx708
                ELSE task'[t].ret = 0 /\ match = {imx708'.cur_mode} ]_vars

\* The search ran on a width and a height of two modes and found nothing,
\* while the active mode has an entry of the variant asked for.
C30_TornSearchRejected ==
  \E t \in Threads :
    /\ task[t].op = "set_hdr_cfg"
    /\ task[t].pc = "done"
    /\ task[t].ret = -EINVAL
    /\ task[t].w = 4608 /\ task[t].h = 1080
    /\ HdrMatches(imx708.cur_mode, task[t].a) # {}

(***************************************************************************)
(* Properties of format negotiation (Spec).                                 *)
(***************************************************************************)
\* C31: a TRY set-format request, imx708_find_best_fit included, leaves the
\* active mode, the long-exposure shift, every control value and range and
\* the hardware registers as they were and makes no transfer; a set-format
\* request that changes the active mode is an ACTIVE one.
C31_TryHasNoSideEffects ==
  [][ call'.op = "set_fmt"
      => /\ call'.id = "TRY"
              => /\ imx708' = imx708
                 /\ ctrls' = ctrls
                 /\ hw' = hw
                 /\ pm' = pm
                 /\ log' = << >>
         /\ imx708'.cur_mode # imx708.cur_mode => call'.id = "ACTIVE" ]_vars

\* A TRY request answered with 1536x864 while another mode stays active
\* and power is in use.
C31_Witness ==
  /\ call.op = "set_fmt"
  /\ call.id = "TRY"
  /\ ret.val = 0
  /\ ret.fmt.width = 1536
  /\ supported_modes[imx708.cur_mode].width = 1920
  /\ InUse(pm)

(***************************************************************************)
(* Properties of the exposure register under the long-exposure shift        *)
(* (SpecReplay).                                                            *)
(***************************************************************************)
\* C32: with power in use and the controls replayed, the exposure register
\* holds the resolved exposure shifted by the current long-exposure shift:
\* every exposure write of a handler uses the shift in force when the
\* handler returns, and a handler that changes the shift of a streaming
\* sensor writes the exposure register again.
C32_ExposureFollowsShift ==
  [][ /\ InUse(pm')
         => \A i \in 1..Len(log') :
              RegWritten(log'[i], IMX708_REG_EXPOSURE)
                => log'[i].val = ApplyVal("EXPOSURE", ctrls', imx708'.cur_mode,
                                          imx708'.long_exp_shift)
      /\ (imx708.streaming /\ imx708'.long_exp_shift # imx708.long_exp_shift)
         => \E i \in 1..Len(log') :
              RegWritten(log'[i], IMX708_REG_EXPOSURE) ]_vars

\* A vblank change on a streaming sensor that raised the shift and wrote
\* the frame-length and shift registers only.
C32_ShiftChangedExposureKept ==
  /\ VblankApplied(call, log)
  /\ imx708.streaming
  /\ imx708.long_exp_shift = 1
  /\ Len(log) = 2
  /\ \A i \in 1..Len(log) : log[i].reg # IMX708_REG_EXPOSURE

(***************************************************************************)
(* Properties of the power-usage references (Spec).                         *)
(***************************************************************************)
\* The references the flags of the driver account for.
FlagReferences(d) ==
  (IF d.power_on THEN 1 ELSE 0) + (IF d.streaming THEN 1 ELSE 0)

\* C33: between operations the number of power-usage references held is
\* one for the power_on flag plus one for the streaming flag, whatever
\* s_power, set_stream, control, suspend and resume calls came before,
\* failed ones included.
C33_ReferencesBalanced ==
  Running => pm.usage_count = FlagReferences(imx708)

\* The same where no imx708_resume has failed: every handler but a failing
\* resume moves the count and the flags together.
C33_ReferencesMoveTogether ==
  [][ (Running' /\ ~(call'.op = "resume" /\ ret'.val # 0))
      => pm'.usage_count - FlagReferences(imx708')
           = pm.usage_count - FlagReferences(imx708) ]_vars

\* A failed resume: the streaming flag is cleared, its reference is kept.
C33_ReferenceLeaked ==
  /\ call.op = "resume"
  /\ ret.val # 0
  /\ ~imx708.streaming
  /\ pm.usage_count = FlagReferences(imx708) + 1

(***************************************************************************)
(* Properties of the width of the exposure write (SpecExposure).            *)
(***************************************************************************)
\* C34: in every state with power in use, every exposure the range of the
\* exposure control accepts gives, resolved and shifted by long_exp_shift,
\* a value of at most 0xFFFF for the 16-bit exposure register, also when
\* the vblank was changed with power not in use and power was then taken
\* by s_power.
C34_ExposureFitsRegister ==
  InUse(pm)
    => \A e \in { ctrls["EXPOSURE"].minimum, ctrls["EXPOSURE"].cur,
                  ctrls["EXPOSURE"].maximum } :
         ExposureLines(supported_modes[imx708.cur_mode], e,
                       imx708.long_exp_shift) <= 65535

\* The bound holds in the states whose shift is the one of the frame
\* length of the active mode and the stored vblank and whose exposure
\* maximum is that of the same frame length.
C34_ExposureFitsUnderCurrentShift ==
  (/\ imx708.long_exp_shift = Halvings(imx708.cur_mode, ctrls)
   /\ ctrls["EXPOSURE"].maximum = ExposureMax(imx708.cur_mode, ctrls))
    => ExposureLines(supported_modes[imx708.cur_mode],
                     ctrls["EXPOSURE"].maximum,
                     imx708.long_exp_shift) <= 65535

\* Power taken by s_power after a vblank change stored without power: the
\* exposure range reaches above 0xFFFF under shift 0.
C34_RangeAboveRegister ==
  /\ call.op = "s_power"
  /\ InUse(pm)
  /\ imx708.long_exp_shift = 0
  /\ ctrls["EXPOSURE"].maximum > 65535

(***************************************************************************)
(* Properties that tie the streaming flag to the common registers (Spec).   *)
(***************************************************************************)
\* C35: in every state of a bound device, reached by set_stream, s_power,
\* control, format, suspend, resume and runtime power-off steps, a true
\* streaming flag comes with a true common_regs_written flag, and the
\* sensor holds the whole common list since it was powered up.
C35_StreamingHasCommonRegs ==
  (sys # "removed" /\ imx708.streaming)
    => /\ imx708.common_regs_written
       /\ hw.common_n = MODE_COMMON_NUM_REGS

\* A streaming sensor after a system suspend and resume that skipped the
\* common block.
C35_Witness ==
  /\ call.op = "resume"
  /\ ret.val = 0
  /\ imx708.streaming
  /\ imx708.common_regs_written
  /\ Len(log) >= 1
  /\ ~CommonList(log[1])

(***************************************************************************)
(* Properties of the format round trip (SpecCtrl).                          *)
(***************************************************************************)
\* The handler was an ACTIVE set-format called with the format get-format
\* returned in state d.
RoundTrip(c, d) ==
  /\ c.op = "set_fmt"
  /\ c.id = "ACTIVE"
  /\ [code |-> c.a, width |-> c.b, height |-> c.c]
       = imx708_get_pad_format([imx708 |-> d, fmt |-> NoFmt, ret |-> 0]).fmt

\* C36: for every active mode, the HDR mode selected by override included,
\* an ACTIVE set-format called with the format get-format returns leaves
\* the active mode as it was.
C36_FormatRoundTrip ==
  [][ RoundTrip(call', imx708)
      => imx708'.cur_mode = imx708.cur_mode ]_vars

\* The round trip keeps the size and the code of the active mode, and
\* keeps the mode when it is not an HDR one.
C36_RoundTripKeepsFormat ==
  [][ RoundTrip(call', imx708)
      => /\ ModeFmt(imx708'.cur_mode) = ModeFmt(imx708.cur_mode)
         /\ supported_modes[imx708.cur_mode].hdr_mode = NO_HDR
              => imx708'.cur_mode = imx708.cur_mode ]_vars

\* A round trip that left the non-HDR entry of 1920x1080 active.
C36_RoundTripDone ==
  /\ RoundTrip(call, imx708)
  /\ ret.val = 0
  /\ supported_modes[imx708.cur_mode].hdr_mode = NO_HDR
  /\ ret.fmt.width = 1920

(***************************************************************************)
(* Properties of the resolved exposure (SpecResolve).                       *)
(***************************************************************************)
\* C37: for every catalog entry and every value requested, the exposure
\* before the shift is at least exposure_lines_min and a multiple of
\* exposure_lines_step, the minimum of every entry being a multiple of its
\* step; it is the largest such multiple not above the larger of the
\* request and the minimum.
C37_ResolvedExposureInGrid ==
  /\ \A m \in 1..cfg_num :
       supported_modes[m].exposure_lines_min
         % supported_modes[m].exposure_lines_step = 0
  /\ call.op = "set_exposure"
       => LET mode == supported_modes[call.a]
              top == IF call.b > mode.exposure_lines_min THEN call.b
                     ELSE mode.exposure_lines_min
          IN /\ ret.val >= mode.exposure_lines_min
             /\ ret.val % mode.exposure_lines_step = 0
             /\ ret.val <= top
             /\ top - ret.val < mode.exposure_lines_step

\* A request below the minimum of the HDR entry, resolved to the minimum.
C37_Witness ==
  /\ call.op = "set_exposure"
  /\ supported_modes[call.a].hdr_mode = HDR_X3
  /\ call.b = 100
  /\ ret.val = supported_modes[call.a].exposure_lines_min

\* A request off the step of the HDR entry, rounded down.
C37_RoundedDown ==
  /\ call.op = "set_exposure"
  /\ supported_modes[call.a].hdr_mode = HDR_X3
  /\ call.b = 161
  /\ ret.val = 160
====
